---- MODULE Spec2Model ----
(***************************************************************************)
(* Model of the domain-decomposed grid of the Tempest atmospheric model:   *)
(* Grid (src/atm/Grid.cpp) and GridPatch (src/atm/GridPatch.cpp).          *)
(*                                                                         *)
(* Every MPI process owns one Grid object holding the same list of         *)
(* patches; a patch holds field data on exactly one process.  The model    *)
(* keeps one copy of the Grid state per rank and an explicit transport     *)
(* (messages in flight) between the ranks.                                 *)
(***************************************************************************)
EXTENDS Integers, Sequences, FiniteSets, TLC

(***************************************************************************)
(* Bounds of the model.                                                    *)
(***************************************************************************)
\* Elements along each side of a cube panel (Grid::m_nABaseResolution).
Res == 2
\* Width of the halo, in elements (Model::GetHaloElements).
HaloElements == 1
\* Largest number of MPI processes (MPI_Comm_size).
MaxProcs == 2
\* Number of time-register slots of State and of Tracers data.
NumSlots == 2
\* Largest number of panels that are split into two patches.
MaxSplitPanels == 1
\* Largest number of DistributePatches calls made by one process.
MaxDistributeCalls == 2
\* Largest number of tracers of the model (EquationSet::GetTracers).
MaxTracers == 1
\* Number of prognostic components (EquationSet::GetComponents).
NumComponents == 2
\* Number of vertical levels (Grid::m_nRElements).
RElements == 1
\* Largest number of data types requested in one consolidation round, and
\* largest number of (patch, data type) pairs of a round.
MaxRequestTypes == 2
MaxConsolidatePairs == 8
\* Largest halo width of the grids on which GridPatch::ExteriorConnect is
\* called directly, and largest number of such calls made by one process.
MaxHaloElements == 2
MaxConnectCalls == 2
\* Largest number of patches of a round that starts with a stray message in
\* flight to the root.
MaxFaultPatches == 2

(***************************************************************************)
(* Small helpers.                                                          *)
(***************************************************************************)
Range(s) == {s[k] : k \in DOMAIN s}

Max(a, b) == IF a >= b THEN a ELSE b

\* The element of a one-element set.
Only(S) == CHOOSE x \in S : TRUE

RECURSIVE SeqOfSet(_)
SeqOfSet(S) ==
    IF S = {} THEN <<>>
    ELSE LET x == CHOOSE y \in S : \A z \in S : y <= z
         IN  <<x>> \o SeqOfSet(S \ {x})

RECURSIVE Flatten(_)
Flatten(ss) == IF ss = <<>> THEN <<>> ELSE Head(ss) \o Flatten(Tail(ss))

(***************************************************************************)
(* Directions (enum Direction) as unit steps in (alpha, beta).             *)
(***************************************************************************)
EdgeDirections == {"Right", "Top", "Left", "Bottom"}

CornerDirections == {"TopRight", "TopLeft", "BottomLeft", "BottomRight"}

Directions == EdgeDirections \cup CornerDirections

DirVec(dir) ==
    CASE dir = "Right"       -> <<1, 0>>
      [] dir = "Top"         -> <<0, 1>>
      [] dir = "Left"        -> <<-1, 0>>
      [] dir = "Bottom"      -> <<0, -1>>
      [] dir = "TopRight"    -> <<1, 1>>
      [] dir = "TopLeft"     -> <<-1, 1>>
      [] dir = "BottomLeft"  -> <<-1, -1>>
      [] dir = "BottomRight" -> <<1, -1>>

VecDir(v) == CHOOSE dir \in Directions : DirVec(dir) = v

(***************************************************************************)
(* The cubed sphere: six panels, 0..3 around the equator, 4 the north and  *)
(* 5 the south panel.  RelativeCoord gives the panel and the index on that *)
(* panel of an index that lies at most one panel outside panel p; the      *)
(* corners of the cube belong to no panel.                                 *)
(***************************************************************************)
Panels == 0 .. 5

InvalidIndex == -1

NoCoord == <<InvalidIndex, 0, 0>>

RelativeCoord(p, i, j) ==
    LET iIn == (i >= 0) /\ (i < Res)
        jIn == (j >= 0) /\ (j < Res)
    IN
    IF iIn /\ jIn THEN <<p, i, j>>
    ELSE IF (~iIn) /\ (~jIn) THEN NoCoord
    ELSE IF p < 4 THEN
        IF i >= Res THEN <<(p + 1) % 4, i - Res, j>>
        ELSE IF i < 0 THEN <<(p + 3) % 4, i + Res, j>>
        ELSE IF j >= Res THEN
            CASE p = 0 -> <<4, i, j - Res>>
              [] p = 1 -> <<4, 2 * Res - 1 - j, i>>
              [] p = 2 -> <<4, Res - 1 - i, 2 * Res - 1 - j>>
              [] p = 3 -> <<4, j - Res, Res - 1 - i>>
        ELSE
            CASE p = 0 -> <<5, i, j + Res>>
              [] p = 1 -> <<5, Res + j, Res - 1 - i>>
              [] p = 2 -> <<5, Res - 1 - i, 0 - j - 1>>
              [] p = 3 -> <<5, 0 - j - 1, i>>
    ELSE IF p = 4 THEN
        IF j < 0 THEN <<0, i, j + Res>>
        ELSE IF i >= Res THEN <<1, j, 2 * Res - 1 - i>>
        ELSE IF j >= Res THEN <<2, Res - 1 - i, 2 * Res - 1 - j>>
        ELSE <<3, Res - 1 - j, i + Res>>
    ELSE
        IF j >= Res THEN <<0, i, j - Res>>
        ELSE IF i >= Res THEN <<1, Res - 1 - j, i - Res>>
        ELSE IF j < 0 THEN <<2, Res - 1 - i, 0 - j - 1>>
        ELSE <<3, j, 0 - i - 1>>

\* Quarter turns (counter-clockwise) by which a step on panel src turns
\* when it is expressed in the frame of the adjacent panel dst.
PanelTurn(src, dst) ==
    IF (src = dst) \/ (src < 4 /\ dst < 4) THEN 0
    ELSE IF src < 4 /\ dst = 4 THEN
        CASE src = 0 -> 0 [] src = 1 -> 1 [] src = 2 -> 2 [] src = 3 -> 3
    ELSE IF src < 4 /\ dst = 5 THEN
        CASE src = 0 -> 0 [] src = 1 -> 3 [] src = 2 -> 2 [] src = 3 -> 1
    ELSE IF src = 4 /\ dst < 4 THEN
        CASE dst = 0 -> 0 [] dst = 1 -> 3 [] dst = 2 -> 2 [] dst = 3 -> 1
    ELSE IF src = 5 /\ dst < 4 THEN
        CASE dst = 0 -> 0 [] dst = 1 -> 1 [] dst = 2 -> 2 [] dst = 3 -> 3
    ELSE 0

Turn(v, q) ==
    CASE q = 0 -> v
      [] q = 1 -> <<0 - v[2], v[1]>>
      [] q = 2 -> <<0 - v[1], 0 - v[2]>>
      [] q = 3 -> <<v[2], 0 - v[1]>>

\* Grid::GetOpposingDirection: the direction on panel dst that faces back
\* along dir of panel src, whether the index range along the boundary runs
\* in reverse on dst, and whether the two local axes are exchanged.
GetOpposingDirection(src, dst, dir) ==
    LET q   == PanelTurn(src, dst)
        w   == Turn(DirVec(dir), q)
        tan == IF dir \in {"Top", "Bottom"} THEN <<1, 0>> ELSE <<0, 1>>
        tw  == Turn(tan, q)
    IN  [dirOpposing |-> VecDir(<<0 - w[1], 0 - w[2]>>),
         fReverseDirection |-> (dir \in EdgeDirections) /\ (tw[1] + tw[2] < 0),
         fFlippedCoordinate |-> (q = 1) \/ (q = 3)]

(***************************************************************************)
(* PatchBox: the index space of one patch.  Global interior bounds are     *)
(* indices on the panel; local indices count from the first halo element.  *)
(***************************************************************************)
PatchBox(panel, a0, a1, b0, b1) ==
    [panel |-> panel, aBegin |-> a0, aEnd |-> a1, bBegin |-> b0, bEnd |-> b1,
     halo |-> HaloElements]

\* The halo width the box was built with: the grid builds every box with
\* the halo width of the model.
GetHaloElements(box) == box.halo

GetAInteriorBegin(box) == box.halo

GetAInteriorEnd(box) == box.halo + (box.aEnd - box.aBegin)

GetBInteriorBegin(box) == box.halo

GetBInteriorEnd(box) == box.halo + (box.bEnd - box.bBegin)

GetATotalWidth(box) == (box.aEnd - box.aBegin) + 2 * box.halo

GetBTotalWidth(box) == (box.bEnd - box.bBegin) + 2 * box.halo

GetTotalNodes(box) == GetATotalWidth(box) * GetBTotalWidth(box)

GetInteriorPerimeter(box) ==
    2 * (box.aEnd - box.aBegin) + 2 * (box.bEnd - box.bBegin)

ContainsGlobalPoint(box, c) ==
    /\ c[1] = box.panel
    /\ c[2] >= box.aBegin /\ c[2] < box.aEnd
    /\ c[3] >= box.bBegin /\ c[3] < box.bEnd

(***************************************************************************)
(* The grids the model is run on: one patch per panel, except that up to   *)
(* MaxSplitPanels panels are cut in two halves, along alpha ("A") or along *)
(* beta ("B").  Patches are listed panel by panel.                         *)
(***************************************************************************)
Half == Res \div 2

PanelBoxes(p, cut) ==
    CASE cut = "none" -> <<PatchBox(p, 0, Res, 0, Res)>>
      [] cut = "A" -> <<PatchBox(p, 0, Half, 0, Res), PatchBox(p, Half, Res, 0, Res)>>
      [] cut = "B" -> <<PatchBox(p, 0, Res, 0, Half), PatchBox(p, 0, Res, Half, Res)>>

Cuts ==
    {c \in [Panels -> {"none", "A", "B"}] :
        Cardinality({p \in Panels : c[p] # "none"}) <= MaxSplitPanels}

GridBoxes(c) == Flatten([k \in 1 .. 6 |-> PanelBoxes(k - 1, c[k - 1])])

(***************************************************************************)
(* State.  Every rank r holds its own Grid object grid[r]:                 *)
(*   vecGridPatches        the patches, patch n at position n + 1;         *)
(*   vecActiveGridPatches  the indices of the patches active on r.         *)
(* A patch is [ixPatch, box, iProcessor, fContainsData, connect], connect  *)
(* being the list of its ExteriorNeighbor relations.  data[r] holds the    *)
(* field arrays of the patches that contain data on r.                     *)
(***************************************************************************)
VARIABLES
    nSize,      \* number of processes (MPI_Comm_size)
    gridBoxes,  \* the boxes of the grid every process is built from
    grid,       \* rank -> Grid object
    data,       \* rank -> (patch index -> field -> cell -> value)
    err,        \* rank -> message of the exception that ended it, or ""
    calls,      \* rank -> number of DistributePatches / InitializeConnectivity calls made
    connLog,    \* rank -> samples generated and consumed, per patch, by InitializeConnectivity
    xarg,       \* the arguments [eDataType, iDataIndex] of the Exchange round
    xchg,       \* rank -> position in Grid::Exchange: [phase, n]
    xcount,     \* rank -> steps of the round taken so far: [barrier, prepared, sent, waited]
    posted,     \* rank -> receives posted and not yet completed: <<patch, relation>>
    net,        \* halo messages in flight
    unpacked,   \* rank -> (<<patch, relation>> -> number of times unpacked in the round)
    xround,     \* [of: rank -> number of its Exchange call, tag: message in flight -> call that sent it]
    status,     \* the ConsolidationStatus of the consolidation round
    cons,       \* rank -> position in the consolidation round
    rootNet,    \* consolidation messages in flight to rank 0
    recvLog,    \* consolidation messages received by the root, by sending patch and type
    nTracers,   \* number of tracers of the model (EquationSet::GetTracers)
    op,         \* the data operation called last (name, rank, patch, arguments) and their number
    cksum       \* rank -> position in Grid::Checksum, its arguments, dChecksumsLocal, dChecksums

gridVars == <<nSize, gridBoxes, grid, data, err, calls, connLog>>

exchangeVars == <<xarg, xchg, xcount, posted, net, unpacked, xround>>

consolidateVars == <<status, cons, rootNet, recvLog, nTracers>>

dataOpVars == <<op, cksum>>

vars == <<nSize, gridBoxes, grid, data, err, calls, connLog,
          xarg, xchg, xcount, posted, net, unpacked, xround,
          status, cons, rootNet, recvLog, nTracers,
          op, cksum>>

Ranks == 0 .. (nSize - 1)

NoError == ""

GetPatchCount(g) == Len(g.vecGridPatches)

GetPatch(g, n) == g.vecGridPatches[n + 1]

ActivePatches(g) == Range(g.vecActiveGridPatches)

NewGridPatch(ixPatch, box) ==
    [ixPatch |-> ixPatch, box |-> box, iProcessor |-> 0,
     fContainsData |-> FALSE, connect |-> <<>>]

EmptyGrid == [vecGridPatches |-> <<>>, vecActiveGridPatches |-> <<>>]

\* Faulty variant: the index is the size of the vector after the push_back.
AddPatchIndexAfterPush(g, box) ==
    LET ixNextPatch == Len(g.vecGridPatches) + 1
    IN  [g EXCEPT !.vecGridPatches = Append(@, NewGridPatch(ixNextPatch, box))]

\* Grid::AddPatch: the patch is appended and takes its position as index.
AddPatch(g, box) ==
    LET ixNextPatch == Len(g.vecGridPatches)
    IN  [g EXCEPT !.vecGridPatches = Append(@, NewGridPatch(ixNextPatch, box))]

RECURSIVE AddPatches(_, _)
AddPatches(g, boxes) ==
    IF boxes = <<>> THEN g
    ELSE Only({AddPatches(g1, Tail(boxes)) : g1 \in {AddPatch(g, Head(boxes))}})

(***************************************************************************)
(* Field storage of a patch.                                               *)
(***************************************************************************)
Slots == 0 .. (NumSlots - 1)

Fields ==
    ({"StateNode", "StateREdge", "Tracers"} \X Slots)
    \cup ({"Vorticity", "Divergence", "Temperature", "TopographyDeriv"} \X {0})

Cells(box) ==
    (0 .. (GetATotalWidth(box) - 1)) \X (0 .. (GetBTotalWidth(box) - 1))

IsInterior(box, c) ==
    /\ c[1] >= GetAInteriorBegin(box) /\ c[1] < GetAInteriorEnd(box)
    /\ c[2] >= GetBInteriorBegin(box) /\ c[2] < GetBInteriorEnd(box)

\* GridPatch::InitializeDataLocal allocates every array, zero-filled.
AllocatedData(box) == [f \in Fields |-> [c \in Cells(box) |-> 0]]

\* The size of m_datavecStateNode, m_datavecStateREdge and m_datavecTracers:
\* InitializeDataLocal resizes them, whatever the number of tracers; a patch
\* that never held data has them empty.
DataInstances(patch) == IF patch.fContainsData THEN NumSlots ELSE 0

(***************************************************************************)
(* Grid::DistributePatches on rank r of size processes.                    *)
(***************************************************************************)
\* Faulty variants of the owner computation: shifted by one patch, and
\* every patch given to rank 0.
OwnerRankShifted(n, size) == (n + 1) % size

OwnerRankRoot(n, size) == 0

\* nPatchProcessor = n % nSize
OwnerRank(n, size) == n % size

\* Faulty variant: the patch is pushed on the active list before
\* InitializeDataLocal tests the flag.
DistributeStepPushFirst(st, n, r, size) ==
    LET patch == GetPatch(st.g, n)
        nPatchProcessor == OwnerRank(n, size)
    IN
    IF nPatchProcessor = r THEN
        [g |-> [vecGridPatches |->
                    [st.g.vecGridPatches EXCEPT ![n + 1] =
                        [patch EXCEPT !.fContainsData = TRUE,
                                      !.iProcessor = r]],
                vecActiveGridPatches |->
                    Append(st.g.vecActiveGridPatches, n)],
         d |-> [m \in (DOMAIN st.d) \cup {n} |->
                    IF m \in DOMAIN st.d THEN st.d[m]
                    ELSE AllocatedData(patch.box)],
         err |-> IF patch.fContainsData
                 THEN "Attempting to initialize a previously initialized GridPatch."
                 ELSE st.err]
    ELSE
        [g |-> [st.g EXCEPT !.vecGridPatches[n + 1] =
                    [patch EXCEPT !.fContainsData = FALSE,
                                  !.iProcessor = nPatchProcessor]],
         d |-> [m \in (DOMAIN st.d) \ {n} |-> st.d[m]],
         err |-> st.err]

\* One iteration of the loop, for patch n.  st = [g, d, err].
DistributeStep(st, n, r, size) ==
    LET patch == GetPatch(st.g, n)
        nPatchProcessor == OwnerRank(n, size)
    IN
    IF nPatchProcessor = r THEN
        \* GridPatch::InitializeDataLocal
        IF patch.fContainsData THEN
            [st EXCEPT !.err =
                "Attempting to initialize a previously initialized GridPatch."]
        ELSE
            [g |-> [vecGridPatches |->
                        [st.g.vecGridPatches EXCEPT ![n + 1] =
                            [patch EXCEPT !.fContainsData = TRUE,
                                          !.iProcessor = r]],
                    vecActiveGridPatches |->
                        Append(st.g.vecActiveGridPatches, n)],
             d |-> [m \in (DOMAIN st.d) \cup {n} |->
                        IF m = n THEN AllocatedData(patch.box) ELSE st.d[m]],
             err |-> st.err]
    ELSE
        \* GridPatch::InitializeDataRemote (DeinitializeData when the patch
        \* holds data)
        [g |-> [st.g EXCEPT !.vecGridPatches[n + 1] =
                    [patch EXCEPT !.fContainsData = FALSE,
                                  !.iProcessor = nPatchProcessor]],
         d |-> [m \in (DOMAIN st.d) \ {n} |-> st.d[m]],
         err |-> st.err]

\* The loop from patch n on; an exception ends it.
RECURSIVE DistributeFrom(_, _, _, _)
DistributeFrom(st, n, r, size) ==
    IF (n >= GetPatchCount(st.g)) \/ (st.err # NoError) THEN st
    ELSE Only({DistributeFrom(s1, n + 1, r, size) :
                    s1 \in {DistributeStep(st, n, r, size)}})

DistributePatchesOn(g, d, r, size) ==
    DistributeFrom([g |-> g, d |-> d, err |-> NoError], 0, r, size)


(***************************************************************************)
(* Grid::InitializeConnectivity, first pass: the boundary samples of a     *)
(* patch, in the order bottom-left corner, bottom edge, bottom-right       *)
(* corner, right edge, top-right corner, top edge (right to left),         *)
(* top-left corner, left edge (top to bottom).  A sample is                *)
(* <<panel, alpha index, beta index>> in global indices.                   *)
(***************************************************************************)
\* Faulty variant: the top-left corner sample is left out.
BoundarySamplesNoTopLeft(box) ==
    LET aw == box.aEnd - box.aBegin
        bw == box.bEnd - box.bBegin
    IN     <<<<box.panel, box.aBegin - 1, box.bBegin - 1>>>>
        \o [k \in 1 .. aw |-> <<box.panel, box.aBegin + k - 1, box.bBegin - 1>>]
        \o <<<<box.panel, box.aEnd, box.bBegin - 1>>>>
        \o [k \in 1 .. bw |-> <<box.panel, box.aEnd, box.bBegin + k - 1>>]
        \o <<<<box.panel, box.aEnd, box.bEnd>>>>
        \o [k \in 1 .. aw |-> <<box.panel, box.aEnd - k, box.bEnd>>]
        \o [k \in 1 .. bw |-> <<box.panel, box.aBegin - 1, box.bEnd - k>>]

BoundarySamples(box) ==
    LET aw == box.aEnd - box.aBegin
        bw == box.bEnd - box.bBegin
    IN     <<<<box.panel, box.aBegin - 1, box.bBegin - 1>>>>
        \o [k \in 1 .. aw |-> <<box.panel, box.aBegin + k - 1, box.bBegin - 1>>]
        \o <<<<box.panel, box.aEnd, box.bBegin - 1>>>>
        \o [k \in 1 .. bw |-> <<box.panel, box.aEnd, box.bBegin + k - 1>>]
        \o <<<<box.panel, box.aEnd, box.bEnd>>>>
        \o [k \in 1 .. aw |-> <<box.panel, box.aEnd - k, box.bEnd>>]
        \o <<<<box.panel, box.aBegin - 1, box.bEnd>>>>
        \o [k \in 1 .. bw |-> <<box.panel, box.aBegin - 1, box.bEnd - k>>]

\* Grid::GetPatchFromCoordinateIndex for one sample: the index of the patch
\* that contains the sample once it is carried onto its panel, or
\* InvalidIndex when no patch does.
PatchFromCoordinateIndex(g, sample) ==
    LET c    == RelativeCoord(sample[1], sample[2], sample[3])
        hits == {n \in 0 .. (GetPatchCount(g) - 1) :
                    ContainsGlobalPoint(GetPatch(g, n).box, c)}
    IN  IF hits = {} THEN InvalidIndex
        ELSE CHOOSE n \in hits : \A m \in hits : n <= m

GetPatchFromCoordinateIndex(g, samples) ==
    [k \in 1 .. Len(samples) |-> PatchFromCoordinateIndex(g, samples[k])]

(***************************************************************************)
(* GridPatch::ExteriorConnect.  A connectivity under construction is       *)
(* cs = [connect, err]: once an exception is raised nothing more is added. *)
(***************************************************************************)
\* Faulty variant: only the extent along alpha is tested.
InsufficientInteriorAlphaOnly(box, dirFirst, ixFirst, ixSecond, nBoundarySize) ==
    \/ /\ dirFirst \in {"TopRight", "BottomRight"}
       /\ ixFirst < GetAInteriorBegin(box) + nBoundarySize - 1
    \/ /\ dirFirst \in {"TopLeft", "BottomLeft"}
       /\ ixFirst > GetAInteriorEnd(box) - nBoundarySize

InsufficientInterior(box, dirFirst, ixFirst, ixSecond, nBoundarySize) ==
    \/ /\ dirFirst = "TopRight"
       /\ \/ ixFirst < GetAInteriorBegin(box) + nBoundarySize - 1
          \/ ixSecond < GetBInteriorBegin(box) + nBoundarySize - 1
    \/ /\ dirFirst = "TopLeft"
       /\ \/ ixFirst > GetAInteriorEnd(box) - nBoundarySize
          \/ ixSecond < GetBInteriorBegin(box) + nBoundarySize - 1
    \/ /\ dirFirst = "BottomLeft"
       /\ \/ ixFirst > GetAInteriorEnd(box) - nBoundarySize
          \/ ixSecond > GetBInteriorEnd(box) - nBoundarySize
    \/ /\ dirFirst = "BottomRight"
       /\ \/ ixFirst < GetAInteriorBegin(box) + nBoundarySize - 1
          \/ ixSecond > GetBInteriorEnd(box) - nBoundarySize

BoundarySize(nHaloElements, dirFirst, ixFirst, ixSecond) ==
    IF dirFirst \in EdgeDirections THEN ixSecond - ixFirst ELSE nHaloElements

ExteriorConnect(cs, box, dirFirst, patchSecond, ixFirst, ixSecond) ==
    IF cs.err # NoError THEN cs
    ELSE
        LET opp == GetOpposingDirection(box.panel, patchSecond.box.panel, dirFirst)
            nBoundarySize == BoundarySize(GetHaloElements(box), dirFirst,
                                          ixFirst, ixSecond)
        IN
        IF InsufficientInterior(box, dirFirst, ixFirst, ixSecond, nBoundarySize)
        THEN [cs EXCEPT !.err =
                "Insufficient interior elements to build diagonal connection."]
        ELSE [cs EXCEPT !.connect = Append(@,
                [dir |-> dirFirst,
                 dirOpposing |-> opp.dirOpposing,
                 ixNeighbor |-> patchSecond.ixPatch,
                 fReverseDirection |-> opp.fReverseDirection,
                 fFlippedCoordinate |-> opp.fFlippedCoordinate,
                 nBoundarySize |-> nBoundarySize,
                 ixFirst |-> ixFirst,
                 ixSecond |-> ixSecond])]

\* The overload without indices: the whole edge, or the corner element.
ExteriorConnectWhole(cs, box, dirFirst, patchSecond) ==
    LET ix ==
        CASE dirFirst \in {"Right", "Left"} ->
                <<GetBInteriorBegin(box), GetBInteriorEnd(box)>>
          [] dirFirst \in {"Top", "Bottom"} ->
                <<GetAInteriorBegin(box), GetAInteriorEnd(box)>>
          [] dirFirst = "TopRight" ->
                <<GetAInteriorEnd(box) - 1, GetBInteriorEnd(box) - 1>>
          [] dirFirst = "TopLeft" ->
                <<GetAInteriorBegin(box), GetBInteriorEnd(box) - 1>>
          [] dirFirst = "BottomLeft" ->
                <<GetAInteriorBegin(box), GetBInteriorBegin(box)>>
          [] dirFirst = "BottomRight" ->
                <<GetAInteriorEnd(box) - 1, GetBInteriorBegin(box)>>
    IN  ExteriorConnect(cs, box, dirFirst, patchSecond, ix[1], ix[2])

(***************************************************************************)
(* Grid::InitializeConnectivity, second pass.  The walk over the samples   *)
(* is ws = [ix, cs]: ix counts the samples consumed (the code's ix).       *)
(***************************************************************************)
\* Faulty variant: the corner relation is left out when the corner sample
\* resolves to the patch of one of the two samples next to it.
ConnectCornerIfDistinct(g, box, vecPatch, ws, dir) ==
    [ix |-> ws.ix + 1,
     cs |-> IF /\ vecPatch[ws.ix + 1] # InvalidIndex
               /\ vecPatch[ws.ix + 1] # vecPatch[ws.ix + 2]
               /\ vecPatch[ws.ix + 1] #
                    vecPatch[IF ws.ix = 0 THEN Len(vecPatch) ELSE ws.ix]
            THEN ExteriorConnectWhole(ws.cs, box, dir,
                                      GetPatch(g, vecPatch[ws.ix + 1]))
            ELSE ws.cs]

\* A corner sample: a relation unless the sample resolves to no patch.
ConnectCorner(g, box, vecPatch, ws, dir) ==
    [ix |-> ws.ix + 1,
     cs |-> IF vecPatch[ws.ix + 1] # InvalidIndex
            THEN ExteriorConnectWhole(ws.cs, box, dir,
                                      GetPatch(g, vecPatch[ws.ix + 1]))
            ELSE ws.cs]

\* The element of the patch at position t along an edge whose other
\* coordinate is fixed: <<alpha, beta>>.
AlongEdge(alongAlpha, t, fixed) == IF alongAlpha THEN <<t, fixed>> ELSE <<fixed, t>>

\* Bottom and right edge: i runs up from the first interior element to
\* ixEnd.  e names the edge: its direction, the two diagonal directions used
\* at a change of neighbor, whether it runs along alpha, and the fixed
\* coordinate.  lp = [ws, ixFirst, iCurrentPatch] is the state of the loop.
\* Faulty variant: the begin of the current run is not moved at a change of
\* neighbor, so every relation of the edge starts at the first element.
EdgeUpIterationKeepFirst(g, box, vecPatch, lp, e, i) ==
    LET ws      == lp.ws
        atEnd   == (i = e.ixEnd)
        changed == atEnd \/ (vecPatch[ws.ix + 1] # lp.iCurrentPatch)
        pOld    == GetPatch(g, lp.iCurrentPatch)
        cs1     == IF changed
                   THEN ExteriorConnect(ws.cs, box, e.dir, pOld, lp.ixFirst, i)
                   ELSE ws.cs
        split   == changed /\ ~atEnd
        iNew    == IF split THEN vecPatch[ws.ix + 1] ELSE lp.iCurrentPatch
        c2      == AlongEdge(e.alongAlpha, i, e.fixed)
        c3      == AlongEdge(e.alongAlpha, i - 1, e.fixed)
        cs2     == IF split
                   THEN ExteriorConnect(cs1, box, e.dirOld, pOld, c2[1], c2[2])
                   ELSE cs1
        cs3     == IF split
                   THEN ExteriorConnect(cs2, box, e.dirNew, GetPatch(g, iNew),
                                        c3[1], c3[2])
                   ELSE cs2
    IN  [ws |-> [ix |-> IF atEnd THEN ws.ix ELSE ws.ix + 1, cs |-> cs3],
         ixFirst |-> lp.ixFirst,
         iCurrentPatch |-> iNew]

\* Faulty variant: the relation of a run is closed at a change of neighbor
\* only, not at the end of the edge.
EdgeUpIterationNoEndOfEdge(g, box, vecPatch, lp, e, i) ==
    LET ws      == lp.ws
        atEnd   == (i = e.ixEnd)
        changed == (~atEnd) /\ (vecPatch[ws.ix + 1] # lp.iCurrentPatch)
        pOld    == GetPatch(g, lp.iCurrentPatch)
        cs1     == IF changed
                   THEN ExteriorConnect(ws.cs, box, e.dir, pOld, lp.ixFirst, i)
                   ELSE ws.cs
        split   == changed /\ ~atEnd
        iNew    == IF split THEN vecPatch[ws.ix + 1] ELSE lp.iCurrentPatch
        c2      == AlongEdge(e.alongAlpha, i, e.fixed)
        c3      == AlongEdge(e.alongAlpha, i - 1, e.fixed)
        cs2     == IF split
                   THEN ExteriorConnect(cs1, box, e.dirOld, pOld, c2[1], c2[2])
                   ELSE cs1
        cs3     == IF split
                   THEN ExteriorConnect(cs2, box, e.dirNew, GetPatch(g, iNew),
                                        c3[1], c3[2])
                   ELSE cs2
    IN  [ws |-> [ix |-> IF atEnd THEN ws.ix ELSE ws.ix + 1, cs |-> cs3],
         ixFirst |-> IF split THEN i ELSE lp.ixFirst,
         iCurrentPatch |-> iNew]

EdgeUpIteration(g, box, vecPatch, lp, e, i) ==
    LET ws      == lp.ws
        atEnd   == (i = e.ixEnd)
        changed == atEnd \/ (vecPatch[ws.ix + 1] # lp.iCurrentPatch)
        pOld    == GetPatch(g, lp.iCurrentPatch)
        cs1     == IF changed
                   THEN ExteriorConnect(ws.cs, box, e.dir, pOld, lp.ixFirst, i)
                   ELSE ws.cs
        split   == changed /\ ~atEnd
        iNew    == IF split THEN vecPatch[ws.ix + 1] ELSE lp.iCurrentPatch
        c2      == AlongEdge(e.alongAlpha, i, e.fixed)
        c3      == AlongEdge(e.alongAlpha, i - 1, e.fixed)
        cs2     == IF split
                   THEN ExteriorConnect(cs1, box, e.dirOld, pOld, c2[1], c2[2])
                   ELSE cs1
        cs3     == IF split
                   THEN ExteriorConnect(cs2, box, e.dirNew, GetPatch(g, iNew),
                                        c3[1], c3[2])
                   ELSE cs2
    IN  [ws |-> [ix |-> IF atEnd THEN ws.ix ELSE ws.ix + 1, cs |-> cs3],
         ixFirst |-> IF split THEN i ELSE lp.ixFirst,
         iCurrentPatch |-> iNew]

RECURSIVE ConnectEdgeUp(_, _, _, _, _, _)
ConnectEdgeUp(g, box, vecPatch, lp, e, i) ==
    IF i > e.ixEnd THEN lp.ws
    ELSE Only({ConnectEdgeUp(g, box, vecPatch, nx, e, i + 1) :
                    nx \in {EdgeUpIteration(g, box, vecPatch, lp, e, i)}})

\* Top and left edge: i runs down from ixEnd - 1 to ixBegin - 1; here
\* lp.ixFirst is the code's ixFirstEnd.
\* Faulty variant: at a change of neighbor only the diagonal relation to the
\* patch of the run that ends is made.
EdgeDownIterationOneDiagonal(g, box, vecPatch, lp, e, i) ==
    LET ws      == lp.ws
        atEnd   == (i = e.ixBegin - 1)
        changed == atEnd \/ (vecPatch[ws.ix + 1] # lp.iCurrentPatch)
        pOld    == GetPatch(g, lp.iCurrentPatch)
        cs1     == IF changed
                   THEN ExteriorConnect(ws.cs, box, e.dir, pOld, i + 1, lp.ixFirst)
                   ELSE ws.cs
        split   == changed /\ ~atEnd
        iNew    == IF split THEN vecPatch[ws.ix + 1] ELSE lp.iCurrentPatch
        c2      == AlongEdge(e.alongAlpha, i, e.fixed)
        cs2     == IF split
                   THEN ExteriorConnect(cs1, box, e.dirOld, pOld, c2[1], c2[2])
                   ELSE cs1
    IN  [ws |-> [ix |-> IF atEnd THEN ws.ix ELSE ws.ix + 1, cs |-> cs2],
         ixFirst |-> IF split THEN i + 1 ELSE lp.ixFirst,
         iCurrentPatch |-> iNew]

EdgeDownIteration(g, box, vecPatch, lp, e, i) ==
    LET ws      == lp.ws
        atEnd   == (i = e.ixBegin - 1)
        changed == atEnd \/ (vecPatch[ws.ix + 1] # lp.iCurrentPatch)
        pOld    == GetPatch(g, lp.iCurrentPatch)
        cs1     == IF changed
                   THEN ExteriorConnect(ws.cs, box, e.dir, pOld, i + 1, lp.ixFirst)
                   ELSE ws.cs
        split   == changed /\ ~atEnd
        iNew    == IF split THEN vecPatch[ws.ix + 1] ELSE lp.iCurrentPatch
        c2      == AlongEdge(e.alongAlpha, i, e.fixed)
        c3      == AlongEdge(e.alongAlpha, i + 1, e.fixed)
        cs2     == IF split
                   THEN ExteriorConnect(cs1, box, e.dirOld, pOld, c2[1], c2[2])
                   ELSE cs1
        cs3     == IF split
                   THEN ExteriorConnect(cs2, box, e.dirNew, GetPatch(g, iNew),
                                        c3[1], c3[2])
                   ELSE cs2
    IN  [ws |-> [ix |-> IF atEnd THEN ws.ix ELSE ws.ix + 1, cs |-> cs3],
         ixFirst |-> IF split THEN i + 1 ELSE lp.ixFirst,
         iCurrentPatch |-> iNew]

RECURSIVE ConnectEdgeDown(_, _, _, _, _, _)
ConnectEdgeDown(g, box, vecPatch, lp, e, i) ==
    IF i < e.ixBegin - 1 THEN lp.ws
    ELSE Only({ConnectEdgeDown(g, box, vecPatch, nx, e, i - 1) :
                    nx \in {EdgeDownIteration(g, box, vecPatch, lp, e, i)}})

BottomEdge(box) ==
    [dir |-> "Bottom", dirOld |-> "BottomLeft", dirNew |-> "BottomRight",
     alongAlpha |-> TRUE, fixed |-> GetBInteriorBegin(box),
     ixBegin |-> GetAInteriorBegin(box), ixEnd |-> GetAInteriorEnd(box)]

RightEdge(box) ==
    [dir |-> "Right", dirOld |-> "BottomRight", dirNew |-> "TopRight",
     alongAlpha |-> FALSE, fixed |-> GetAInteriorEnd(box) - 1,
     ixBegin |-> GetBInteriorBegin(box), ixEnd |-> GetBInteriorEnd(box)]

\* Faulty variant: the two diagonal directions at a change of neighbor
\* along the top edge are exchanged.
TopEdgeSwapped(box) ==
    [dir |-> "Top", dirOld |-> "TopLeft", dirNew |-> "TopRight",
     alongAlpha |-> TRUE, fixed |-> GetBInteriorEnd(box) - 1,
     ixBegin |-> GetAInteriorBegin(box), ixEnd |-> GetAInteriorEnd(box)]

TopEdge(box) ==
    [dir |-> "Top", dirOld |-> "TopRight", dirNew |-> "TopLeft",
     alongAlpha |-> TRUE, fixed |-> GetBInteriorEnd(box) - 1,
     ixBegin |-> GetAInteriorBegin(box), ixEnd |-> GetAInteriorEnd(box)]

LeftEdge(box) ==
    [dir |-> "Left", dirOld |-> "TopLeft", dirNew |-> "BottomLeft",
     alongAlpha |-> FALSE, fixed |-> GetAInteriorBegin(box),
     ixBegin |-> GetBInteriorBegin(box), ixEnd |-> GetBInteriorEnd(box)]

StartEdgeUp(g, box, vecPatch, ws, e) ==
    ConnectEdgeUp(g, box, vecPatch,
        [ws |-> ws, ixFirst |-> e.ixBegin, iCurrentPatch |-> vecPatch[ws.ix + 1]],
        e, e.ixBegin)

StartEdgeDown(g, box, vecPatch, ws, e) ==
    ConnectEdgeDown(g, box, vecPatch,
        [ws |-> ws, ixFirst |-> e.ixEnd, iCurrentPatch |-> vecPatch[ws.ix + 1]],
        e, e.ixEnd - 1)

\* The eight parts of the walk, in the order of the code.
WalkPart(g, box, vecPatch, ws, k) ==
    CASE k = 1 -> ConnectCorner(g, box, vecPatch, ws, "BottomLeft")
      [] k = 2 -> StartEdgeUp(g, box, vecPatch, ws, BottomEdge(box))
      [] k = 3 -> ConnectCorner(g, box, vecPatch, ws, "BottomRight")
      [] k = 4 -> StartEdgeUp(g, box, vecPatch, ws, RightEdge(box))
      [] k = 5 -> ConnectCorner(g, box, vecPatch, ws, "TopRight")
      [] k = 6 -> StartEdgeDown(g, box, vecPatch, ws, TopEdge(box))
      [] k = 7 -> ConnectCorner(g, box, vecPatch, ws, "TopLeft")
      [] k = 8 -> StartEdgeDown(g, box, vecPatch, ws, LeftEdge(box))

RECURSIVE WalkFrom(_, _, _, _, _)
WalkFrom(g, box, vecPatch, ws, k) ==
    IF k > 8 THEN ws
    ELSE Only({WalkFrom(g, box, vecPatch, w, k + 1) :
                    w \in {WalkPart(g, box, vecPatch, ws, k)}})

\* The relations of one patch, built on top of its connectivity so far,
\* and the number of samples consumed.
BuildRelations(g, box, vecPatch, connect) ==
    WalkFrom(g, box, vecPatch,
             [ix |-> 0, cs |-> [connect |-> connect, err |-> NoError]], 1)

\* The walk of one active patch: samples generated, samples consumed, the
\* connectivity built and the exception raised, if any.
WalkResult(patch, samples, w) ==
    LET expected == GetInteriorPerimeter(patch.box) + 4
    IN  IF Len(samples) # expected
        THEN [generated |-> Len(samples), consumed |-> 0,
              connect |-> patch.connect, err |-> "Index mismatch"]
        ELSE [generated |-> Len(samples), consumed |-> w.ix,
              connect |-> w.cs.connect,
              err |-> IF w.cs.err # NoError THEN w.cs.err
                      ELSE IF w.ix # expected THEN "Index mismatch"
                      ELSE NoError]

ConnectPatch(g, n) ==
    Only({ Only({ Only({ WalkResult(patch, samples, w) :
                w \in {IF Len(samples) # GetInteriorPerimeter(patch.box) + 4
                       THEN [ix |-> 0, cs |-> [connect |-> patch.connect,
                                               err |-> NoError]]
                       ELSE BuildRelations(g, patch.box, vecPatch, patch.connect)} }) :
            vecPatch \in {GetPatchFromCoordinateIndex(g, samples)} }) :
        patch \in {GetPatch(g, n)}, samples \in {BoundarySamples(GetPatch(g, n).box)} })

\* The loop over the active patches, from position k of the active list.
\* st = [g, err, walked], walked listing [ixPatch, generated, consumed] of
\* every patch walked.
ConnectStep(st, k) ==
    Only({ [g |-> [st.g EXCEPT !.vecGridPatches[c.n + 1].connect = c.w.connect],
            err |-> c.w.err,
            walked |-> Append(st.walked,
                [ixPatch |-> c.n, generated |-> c.w.generated,
                 consumed |-> c.w.consumed])] :
        c \in {[n |-> st.g.vecActiveGridPatches[k],
                w |-> ConnectPatch(st.g, st.g.vecActiveGridPatches[k])]} })

RECURSIVE ConnectFrom(_, _)
ConnectFrom(st, k) ==
    IF (k > Len(st.g.vecActiveGridPatches)) \/ (st.err # NoError) THEN st
    ELSE Only({ConnectFrom(s1, k + 1) : s1 \in {ConnectStep(st, k)}})

\* Faulty variant: the loop runs over every patch of the grid.
InitializeConnectivityOnEveryPatch(g) ==
    Only({ [st EXCEPT !.g.vecActiveGridPatches = g.vecActiveGridPatches] :
           st \in {ConnectFrom([g |-> [g EXCEPT !.vecActiveGridPatches =
                                        [k \in 1 .. Len(g.vecGridPatches) |-> k - 1]],
                                err |-> NoError, walked |-> <<>>], 1)} })

InitializeConnectivityOn(g) ==
    ConnectFrom([g |-> g, err |-> NoError, walked |-> <<>>], 1)


(***************************************************************************)
(* The grid life cycle: every process builds the same grid, then calls     *)
(* DistributePatches and InitializeConnectivity.                           *)
(***************************************************************************)
NoCut == [p \in Panels |-> "none"]

FullGrids == {GridBoxes(c) : c \in Cuts}

\* Grids of fewer patches, on which only the distribution is run.
PartialGrids == {SubSeq(GridBoxes(NoCut), 1, n) : n \in 0 .. 5}

\* Every process is at its first call of Grid::Exchange and no message has
\* been sent.
FirstRound(size) == [of |-> [r \in 0 .. (size - 1) |-> 1], tag |-> <<>>]

\* No Exchange round and no consolidation round has been started.
ExchangeIdle(size) ==
    /\ xarg = [eDataType |-> "None", iDataIndex |-> 0]
    /\ xchg = [r \in 0 .. (size - 1) |-> [phase |-> "idle", n |-> 0]]
    /\ xcount = [r \in 0 .. (size - 1) |->
                    [barrier |-> FALSE, prepared |-> 0, sent |-> 0, waited |-> 0]]
    /\ posted = [r \in 0 .. (size - 1) |-> {}]
    /\ net = {}
    /\ unpacked = [r \in 0 .. (size - 1) |-> <<>>]
    /\ xround = FirstRound(size)

ConsolidateIdle(size) ==
    /\ status = [vecDataTypes |-> {}, received |-> <<>>]
    /\ cons = [r \in 0 .. (size - 1) |->
                [phase |-> "idle", sends |-> <<>>,
                 out |-> [ixRecvPatch |-> InvalidIndex, eRecvDataType |-> "None",
                          nRecvCount |-> 0]]]
    /\ rootNet = {}
    /\ recvLog = <<>>
    /\ nTracers = MaxTracers

\* No data operation has been called and no Checksum is under way.
NoCall ==
    [name |-> "None", r |-> 0, ixPatch |-> 0, eDataType |-> "None",
     ixSource |-> 0, ixDest |-> 0, dCoeff |-> <<>>, nCalls |-> 0]

NoChecksum ==
    [phase |-> "idle", eDataType |-> "None", iDataIndex |-> 0,
     eChecksumType |-> "None", local |-> <<>>, out |-> <<>>]

DataOpIdle(size) ==
    /\ op = NoCall
    /\ cksum = [r \in 0 .. (size - 1) |-> NoChecksum]

GridInit(boxes, size) ==
    /\ nSize = size
    /\ gridBoxes = boxes
    /\ grid = [r \in 0 .. (size - 1) |-> AddPatches(EmptyGrid, boxes)]
    /\ data = [r \in 0 .. (size - 1) |-> <<>>]
    /\ err = [r \in 0 .. (size - 1) |-> NoError]
    /\ calls = [r \in 0 .. (size - 1) |-> [dist |-> 0, conn |-> 0]]
    /\ connLog = [r \in 0 .. (size - 1) |-> <<>>]
    /\ ExchangeIdle(size)
    /\ ConsolidateIdle(size)
    /\ DataOpIdle(size)

DistributePatches(r) ==
    /\ err[r] = NoError
    /\ calls[r].dist < MaxDistributeCalls
    /\ \E st \in {DistributePatchesOn(grid[r], data[r], r, nSize)} :
           /\ grid' = [grid EXCEPT ![r] = st.g]
           /\ data' = [data EXCEPT ![r] = st.d]
           /\ err' = [err EXCEPT ![r] = st.err]
    /\ calls' = [calls EXCEPT ![r].dist = @ + 1]
    /\ UNCHANGED <<nSize, gridBoxes, connLog>>
    /\ UNCHANGED exchangeVars
    /\ UNCHANGED consolidateVars
    /\ UNCHANGED dataOpVars

InitializeConnectivity(r) ==
    /\ err[r] = NoError
    /\ calls[r].conn = 0
    /\ [k \in DOMAIN gridBoxes |-> [gridBoxes[k] EXCEPT !.halo = HaloElements]]
            \in FullGrids
    /\ \E st \in {InitializeConnectivityOn(grid[r])} :
           /\ grid' = [grid EXCEPT ![r] = st.g]
           /\ err' = [err EXCEPT ![r] = st.err]
           /\ connLog' = [connLog EXCEPT ![r] = st.walked]
    /\ calls' = [calls EXCEPT ![r].conn = @ + 1]
    /\ UNCHANGED <<nSize, gridBoxes, data>>
    /\ UNCHANGED exchangeVars
    /\ UNCHANGED consolidateVars
    /\ UNCHANGED dataOpVars

Init ==
    \E boxes \in FullGrids \cup PartialGrids, size \in 1 .. MaxProcs :
        GridInit(boxes, size)

Next ==
    \E r \in Ranks :
        \/ DistributePatches(r)
        \/ InitializeConnectivity(r)

Spec == Init /\ [][Next]_vars

(***************************************************************************)
(* Properties of the grid life cycle.                                      *)
(***************************************************************************)
InsufficientError == "Insufficient interior elements to build diagonal connection."

Abs(x) == IF x < 0 THEN 0 - x ELSE x

\* Every process has run DistributePatches exactly once.
DistributedOnce == \A r \in Ranks : calls[r].dist = 1

\* Every process has run InitializeConnectivity over all of its active
\* patches, after DistributePatches, and no process has raised an error.
ConnectedEverywhere ==
    \A r \in Ranks :
        /\ err[r] = NoError
        /\ calls[r].dist = 1
        /\ calls[r].conn = 1
        /\ Len(connLog[r]) = Len(grid[r].vecActiveGridPatches)

\* The connectivity of patch n as held by the process that owns it.
OwnerConnect(n) == GetPatch(grid[n % nSize], n).connect

\* C5: once InitializeConnectivity has run on every process, every relation
\* of a patch A to a patch B in direction D is matched, on the process that
\* owns B, by a relation of B to A in the opposing direction given by the
\* panel topology, covering a segment of the same length.
C5_ConnectivitySymmetric ==
    ConnectedEverywhere =>
        \A a \in 0 .. (Len(gridBoxes) - 1) :
            \A rel \in Range(OwnerConnect(a)) :
                \E back \in Range(OwnerConnect(rel.ixNeighbor)) :
                    /\ back.ixNeighbor = a
                    /\ back.dir = rel.dirOpposing
                    /\ back.nBoundarySize = rel.nBoundarySize

\* A grid with a split panel, connected on two processes: some patch has a
\* diagonal relation and some edge relation crosses a panel boundary with a
\* turn of the axes.
C5_Witness ==
    /\ ConnectedEverywhere
    /\ nSize > 1
    /\ \E a \in 0 .. (Len(gridBoxes) - 1) :
         /\ \E rel \in Range(OwnerConnect(a)) : rel.dir \in CornerDirections
         /\ \E rel \in Range(OwnerConnect(a)) :
              rel.dir \in EdgeDirections /\ rel.fFlippedCoordinate

\* C6: for every patch walked by InitializeConnectivity the number of
\* boundary samples generated is GetInteriorPerimeter() + 4 and the
\* relation-building pass consumes as many; a walk with any other count
\* ends in the 'Index mismatch' error (which therefore never occurs).
C6_SampleCount ==
    \A r \in Ranks :
        \A k \in DOMAIN connLog[r] :
            LET w        == connLog[r][k]
                expected == GetInteriorPerimeter(GetPatch(grid[r], w.ixPatch).box) + 4
                counted  == (w.generated = expected) /\ (w.consumed = expected)
            IN  /\ (err[r] # InsufficientError) => counted
                /\ (~counted /\ err[r] # InsufficientError) => (err[r] = "Index mismatch")

\* A process has walked a half-panel patch (perimeter + 4 = 10 at the
\* base resolution) and a whole-panel patch without error.
C6_Witness ==
    \E r \in Ranks :
        /\ err[r] = NoError
        /\ \E k1, k2 \in DOMAIN connLog[r] :
             /\ connLog[r][k1].consumed = connLog[r][k1].generated
             /\ connLog[r][k2].consumed = connLog[r][k2].generated
             /\ connLog[r][k1].consumed < connLog[r][k2].consumed

\* C7: once each of the P processes has run DistributePatches once on the
\* same list of patches, patch i holds data, and is in the active list, on
\* the process of rank i mod P and on no other, and every process records
\* i mod P as the owner of patch i.
C7_RoundRobinOwner ==
    DistributedOnce =>
        \A r \in Ranks :
            \A i \in 0 .. (GetPatchCount(grid[r]) - 1) :
                LET patch == GetPatch(grid[r], i)
                IN  /\ patch.fContainsData <=> (r = i % nSize)
                    /\ (i \in ActivePatches(grid[r])) <=> (r = i % nSize)
                    /\ (i \in DOMAIN data[r]) <=> (r = i % nSize)
                    /\ patch.iProcessor = i % nSize

\* Two processes, at least three patches, each process distributed once.
C7_Witness ==
    /\ DistributedOnce
    /\ nSize > 1
    /\ Len(gridBoxes) >= 3
    /\ \A r \in Ranks : err[r] = NoError

\* C8: after DistributePatches on every process, the numbers of active
\* patches of any two processes differ by at most one.
C8_BalancedLoad ==
    (\A r \in Ranks : calls[r].dist >= 1) =>
        \A r1, r2 \in Ranks :
            Abs(Len(grid[r1].vecActiveGridPatches)
                - Len(grid[r2].vecActiveGridPatches)) <= 1

\* An odd number of patches on two processes: the loads differ by one.
C8_Witness ==
    /\ \A r \in Ranks : calls[r].dist >= 1
    /\ \E r1, r2 \in Ranks :
         Len(grid[r1].vecActiveGridPatches)
            = Len(grid[r2].vecActiveGridPatches) + 1

(***************************************************************************)
(* Halo exchange: Grid::Exchange, GridPatch::PrepareExchange, Send and     *)
(* Receive.  The buffers of a relation hold one block per packed array; a  *)
(* block is indexed in the frame of the receiving patch, by                *)
(* <<depth, position along the edge>> for an edge and by                   *)
(* <<offset along alpha, offset along beta>> for a corner.                 *)
(***************************************************************************)
\* The result of Connectivity::WaitReceive when no receive is pending.
NullNeighbor == 0

BlockIndex(rel) ==
    (0 .. (HaloElements - 1))
    \X (0 .. ((IF rel.dir \in EdgeDirections THEN rel.nBoundarySize
               ELSE HaloElements) - 1))

\* The interior element of the sending patch behind index ix of its own
\* frame, and the halo element of the receiving patch filled by index ix.
SendCell(box, rel, ix) ==
    CASE rel.dir = "Right"  -> <<GetAInteriorEnd(box) - 1 - ix[1], rel.ixFirst + ix[2]>>
      [] rel.dir = "Left"   -> <<GetAInteriorBegin(box) + ix[1], rel.ixFirst + ix[2]>>
      [] rel.dir = "Top"    -> <<rel.ixFirst + ix[2], GetBInteriorEnd(box) - 1 - ix[1]>>
      [] rel.dir = "Bottom" -> <<rel.ixFirst + ix[2], GetBInteriorBegin(box) + ix[1]>>
      [] OTHER -> <<rel.ixFirst - DirVec(rel.dir)[1] * ix[1],
                    rel.ixSecond - DirVec(rel.dir)[2] * ix[2]>>

\* Faulty variant: the block is written onto the interior elements next to
\* the boundary.
RecvCellOntoInterior(box, rel, ix) == SendCell(box, rel, ix)

RecvCell(box, rel, ix) ==
    CASE rel.dir = "Right"  -> <<GetAInteriorEnd(box) + ix[1], rel.ixFirst + ix[2]>>
      [] rel.dir = "Left"   -> <<GetAInteriorBegin(box) - 1 - ix[1], rel.ixFirst + ix[2]>>
      [] rel.dir = "Top"    -> <<rel.ixFirst + ix[2], GetBInteriorEnd(box) + ix[1]>>
      [] rel.dir = "Bottom" -> <<rel.ixFirst + ix[2], GetBInteriorBegin(box) - 1 - ix[1]>>
      [] OTHER -> <<rel.ixFirst + DirVec(rel.dir)[1] * (1 + ix[1]),
                    rel.ixSecond + DirVec(rel.dir)[2] * (1 + ix[2])>>

\* The index of the sender's frame that lands on index ix of the
\* receiver's frame: the reverse-order / axis-flip transform of the relation.
SenderIndex(rel, ix) ==
    IF rel.dir \in EdgeDirections
    THEN <<ix[1], IF rel.fReverseDirection
                  THEN rel.nBoundarySize - 1 - ix[2] ELSE ix[2]>>
    ELSE IF rel.fFlippedCoordinate THEN <<ix[2], ix[1]>> ELSE ix

\* ExteriorNeighbor::Pack of one array, ExteriorNeighbor::Unpack into one.
Pack(box, rel, arr) ==
    [ix \in BlockIndex(rel) |-> arr[SendCell(box, rel, SenderIndex(rel, ix))]]

Unpack(box, rel, arr, block) ==
    Only({ [c \in DOMAIN arr |->
                IF (c \in DOMAIN at) /\ (at[c] \in DOMAIN block)
                THEN block[at[c]] ELSE arr[c]] :
           at \in {[c \in {RecvCell(box, rel, ix) : ix \in BlockIndex(rel)} |->
                       CHOOSE ix \in BlockIndex(rel) : RecvCell(box, rel, ix) = c]} })

\* Faulty variant: a data type Send does not know is sent with no array.
SendErrorAnyType(nInstances, eDataType, iDataIndex) ==
    CASE eDataType = "State" ->
            IF (iDataIndex < 0) \/ (iDataIndex > nInstances)
            THEN "Invalid state data instance." ELSE NoError
      [] eDataType = "Tracers" ->
            IF (iDataIndex < 0) \/ (iDataIndex > nInstances)
            THEN "Invalid tracers data instance." ELSE NoError
      [] OTHER -> NoError

\* GridPatch::Send: the exception it raises and the arrays it packs.
SendError(nInstances, eDataType, iDataIndex) ==
    CASE eDataType = "State" ->
            IF (iDataIndex < 0) \/ (iDataIndex > nInstances)
            THEN "Invalid state data instance." ELSE NoError
      [] eDataType = "Tracers" ->
            IF (iDataIndex < 0) \/ (iDataIndex > nInstances)
            THEN "Invalid tracers data instance." ELSE NoError
      [] eDataType \in {"Vorticity", "Divergence", "Temperature", "TopographyDeriv"} ->
            NoError
      [] OTHER -> "Invalid DataType"

\* Faulty variants: slot 0 is packed whatever the index; the node and the
\* interface array of the state are packed in the wrong order.
SendArraysSlotZero(eDataType, iDataIndex) ==
    CASE eDataType = "State" -> << <<"StateNode", 0>>, <<"StateREdge", 0>> >>
      [] eDataType = "Tracers" -> << <<"Tracers", 0>> >>
      [] eDataType \in {"Vorticity", "Divergence", "Temperature", "TopographyDeriv"} ->
            << <<eDataType, 0>> >>
      [] OTHER -> <<>>

SendArrays(eDataType, iDataIndex) ==
    CASE eDataType = "State" ->
            << <<"StateNode", iDataIndex>>, <<"StateREdge", iDataIndex>> >>
      [] eDataType = "Tracers" -> << <<"Tracers", iDataIndex>> >>
      [] eDataType = "Vorticity" -> << <<"Vorticity", 0>> >>
      [] eDataType = "Divergence" -> << <<"Divergence", 0>> >>
      [] eDataType = "Temperature" -> << <<"Temperature", 0>> >>
      [] eDataType = "TopographyDeriv" -> << <<"TopographyDeriv", 0>> >>
      [] OTHER -> <<>>

\* GridPatch::Receive: the exception it raises and the arrays it unpacks into.
ReceiveError(nInstances, eDataType, iDataIndex) ==
    CASE eDataType = "State" ->
            IF (iDataIndex < 0) \/ (iDataIndex > nInstances)
            THEN "Invalid state data instance." ELSE NoError
      [] eDataType = "Tracers" ->
            IF (iDataIndex < 0) \/ (iDataIndex > nInstances)
            THEN "Invalid tracers data instance." ELSE NoError
      [] eDataType \in {"Vorticity", "Divergence", "Temperature", "TopographyDeriv"} ->
            NoError
      [] OTHER -> "Invalid DataType"

ReceiveArrays(eDataType, iDataIndex) ==
    CASE eDataType = "State" ->
            << <<"StateNode", iDataIndex>>, <<"StateREdge", iDataIndex>> >>
      [] eDataType = "Tracers" -> << <<"Tracers", iDataIndex>> >>
      [] eDataType = "Vorticity" -> << <<"Vorticity", 0>> >>
      [] eDataType = "Divergence" -> << <<"Divergence", 0>> >>
      [] eDataType = "Temperature" -> << <<"Temperature", 0>> >>
      [] eDataType = "TopographyDeriv" -> << <<"TopographyDeriv", 0>> >>
      [] OTHER -> <<>>

\* An index that passes the test of Send or Receive may still lie past the
\* end of the slot vector (iDataIndex = size()): indexing the vector is
\* then undefined.  The outcomes modelled are a memory fault that ends the
\* process and an access to storage that belongs to no slot, which reads as
\* a value of GarbageValues in every cell and takes a write without
\* changing any slot.
MemoryFault == "Segmentation fault"

GarbageValues == {-1}

\* The reads of Send: [fault, d], d being the arrays as the reads see them.
SlotReads(d, box, arrays) ==
    IF \A k \in DOMAIN arrays : arrays[k] \in DOMAIN d
    THEN {[fault |-> FALSE, d |-> d]}
    ELSE {[fault |-> TRUE, d |-> d]}
         \cup {[fault |-> FALSE,
                d |-> [f \in (DOMAIN d) \cup Range(arrays) |->
                        IF f \in DOMAIN d THEN d[f]
                        ELSE [c \in Cells(box) |-> g]]] : g \in GarbageValues}

\* The writes of Receive: into the slots, a fault, or outside every slot.
SlotWrites(d, arrays) ==
    IF \A k \in DOMAIN arrays : arrays[k] \in DOMAIN d
    THEN {"slots"} ELSE {"fault", "outside"}

\* Faulty variant: a message carries the direction the relation has at the
\* sender instead of the direction it has at the neighbor.
PatchMessagesOwnDirection(patch, d, arrays) ==
    { [src |-> patch.ixPatch, dst |-> rel.ixNeighbor, dir |-> rel.dir,
       blocks |-> [k \in DOMAIN arrays |-> Pack(patch.box, rel, d[arrays[k]])]] :
      rel \in Range(patch.connect) }

\* Connectivity::Pack and Send of one patch: one message per relation,
\* addressed to the neighbor patch and to the direction the relation has
\* there, holding one block per packed array.  d is the patch's field data.
PatchMessages(patch, d, arrays) ==
    { [src |-> patch.ixPatch, dst |-> rel.ixNeighbor, dir |-> rel.dirOpposing,
       blocks |-> [k \in DOMAIN arrays |-> Pack(patch.box, rel, d[arrays[k]])]] :
      rel \in Range(patch.connect) }

\* Faulty variant: any message for the patch completes any of its receives.
MatchesAnyRelation(msg, n, rel) == msg.dst = n

\* A message completes the receive posted for relation rel of patch n.
Matches(msg, n, rel) ==
    /\ msg.dst = n
    /\ msg.src = rel.ixNeighbor
    /\ msg.dir = rel.dir

\* Connectivity::WaitReceive: a relation whose posted receive has
\* completed, or NullNeighbor when the patch has no receive pending.  With
\* receives pending and no message arrived the call blocks.
WaitReceive(patch, pending, inFlight) ==
    IF \A k \in DOMAIN patch.connect : <<patch.ixPatch, k>> \notin pending
    THEN {NullNeighbor}
    ELSE {k \in DOMAIN patch.connect :
            /\ <<patch.ixPatch, k>> \in pending
            /\ \E msg \in inFlight : Matches(msg, patch.ixPatch, patch.connect[k])}

\* The loop of GridPatch::Receive: while ((pNeighbor = WaitReceive()) != NULL).
ReceiveLoopSkipped(pNeighbor) == FALSE

ReceiveLoopRuns(pNeighbor) == pNeighbor # NullNeighbor

\* The body of the loop: every array of the data type is unpacked from the
\* blocks of the message, in the order they were packed.
RECURSIVE UnpackBlocks(_, _, _, _, _, _)
UnpackBlocks(d, box, rel, arrays, blocks, k) ==
    IF k > Len(arrays) THEN d
    ELSE Only({UnpackBlocks(d1, box, rel, arrays, blocks, k + 1) :
                d1 \in {[d EXCEPT ![arrays[k]] =
                            Unpack(box, rel, d[arrays[k]], blocks[k])]}})

\* The order of the steps of Grid::Exchange.
NextPhaseSendFirst(phase) ==
    CASE phase = "idle" -> "barrier"
      [] phase = "barrier" -> "send"
      [] phase = "send" -> "prepare"
      [] phase = "prepare" -> "receive"
      [] phase = "receive" -> "done"

\* Faulty variant: Exchange returns after its sends, without the Receive loop.
NextPhaseNoReceive(phase) ==
    CASE phase = "idle" -> "barrier"
      [] phase = "barrier" -> "prepare"
      [] phase = "prepare" -> "send"
      [] phase = "send" -> "done"
      [] phase = "receive" -> "done"

NextPhase(phase) ==
    CASE phase = "idle" -> "barrier"
      [] phase = "barrier" -> "prepare"
      [] phase = "prepare" -> "send"
      [] phase = "send" -> "receive"
      [] phase = "receive" -> "done"

\* The position after one more patch of a loop over the active patches.
Advance(x, nActive) ==
    IF x.n + 1 < nActive THEN [x EXCEPT !.n = @ + 1]
    ELSE [phase |-> NextPhase(x.phase), n |-> 0]

ActiveCount(r) == Len(grid[r].vecActiveGridPatches)

CurrentPatch(r) == GetPatch(grid[r], grid[r].vecActiveGridPatches[xchg[r].n + 1])

\* The messages msgs are sent by call k of Exchange.
SentIn(tag, msgs, k) ==
    [m \in (DOMAIN tag) \cup msgs |-> IF m \in msgs THEN k ELSE tag[m]]

\* Grid::Exchange is entered: the process waits in MPI_Barrier.
EnterExchange(r) ==
    /\ err[r] = NoError
    /\ xchg[r].phase = "idle"
    /\ xchg' = [xchg EXCEPT ![r] = [phase |-> NextPhase("idle"), n |-> 0]]
    /\ UNCHANGED <<xarg, xcount, posted, net, unpacked, xround>>
    /\ UNCHANGED gridVars
    /\ UNCHANGED consolidateVars
    /\ UNCHANGED dataOpVars

\* Faulty variant: the barrier lets each process through on its own.
BarrierNotCollective ==
    /\ \E q \in Ranks :
        /\ xchg[q].phase = "barrier"
        /\ xchg' = [xchg EXCEPT ![q] =
                        IF ActiveCount(q) = 0 THEN [phase |-> "done", n |-> 0]
                        ELSE [phase |-> NextPhase("barrier"), n |-> 0]]
        /\ xcount' = [xcount EXCEPT ![q].barrier = TRUE]
    /\ UNCHANGED <<xarg, posted, net, unpacked, xround>>
    /\ UNCHANGED gridVars
    /\ UNCHANGED consolidateVars
    /\ UNCHANGED dataOpVars

\* MPI_Barrier: no process leaves before every process has entered.
Barrier ==
    /\ \A r \in Ranks : xchg[r].phase = "barrier"
    /\ xchg' = [r \in Ranks |->
                    IF ActiveCount(r) = 0 THEN [phase |-> "done", n |-> 0]
                    ELSE [phase |-> NextPhase("barrier"), n |-> 0]]
    /\ xcount' = [r \in Ranks |-> [xcount[r] EXCEPT !.barrier = TRUE]]
    /\ UNCHANGED <<xarg, posted, net, unpacked, xround>>
    /\ UNCHANGED gridVars
    /\ UNCHANGED consolidateVars
    /\ UNCHANGED dataOpVars

\* GridPatch::PrepareExchange of the next active patch: one receive is
\* posted per relation of the patch (Connectivity::PrepareExchange).
PrepareExchange(r) ==
    /\ err[r] = NoError
    /\ xchg[r].phase = "prepare"
    /\ \E patch \in {CurrentPatch(r)} :
         posted' = [posted EXCEPT ![r] =
                        @ \cup {<<patch.ixPatch, k>> : k \in DOMAIN patch.connect}]
    /\ xchg' = [xchg EXCEPT ![r] = Advance(@, ActiveCount(r))]
    /\ xcount' = [xcount EXCEPT ![r].prepared = @ + 1]
    /\ UNCHANGED <<xarg, net, unpacked, xround>>
    /\ UNCHANGED gridVars
    /\ UNCHANGED consolidateVars
    /\ UNCHANGED dataOpVars

\* GridPatch::Send of the next active patch.
Send(r) ==
    /\ err[r] = NoError
    /\ xchg[r].phase = "send"
    /\ \E patch \in {CurrentPatch(r)} :
       \E e \in {SendError(DataInstances(patch), xarg.eDataType, xarg.iDataIndex)} :
         IF e # NoError
         THEN /\ err' = [err EXCEPT ![r] = e]
              /\ UNCHANGED <<net, xchg, xcount, xround>>
         ELSE \E rd \in SlotReads(data[r][patch.ixPatch], patch.box,
                                  SendArrays(xarg.eDataType, xarg.iDataIndex)) :
              IF rd.fault
              THEN /\ err' = [err EXCEPT ![r] = MemoryFault]
                   /\ UNCHANGED <<net, xchg, xcount, xround>>
              ELSE /\ \E msgs \in {PatchMessages(patch, rd.d,
                                    SendArrays(xarg.eDataType, xarg.iDataIndex))} :
                        /\ net' = net \cup msgs
                        /\ xround' = [xround EXCEPT !.tag =
                                            SentIn(@, msgs, xround.of[r])]
                   /\ xchg' = [xchg EXCEPT ![r] = Advance(@, ActiveCount(r))]
                   /\ xcount' = [xcount EXCEPT ![r].sent = @ + 1]
                   /\ UNCHANGED err
    /\ UNCHANGED <<nSize, gridBoxes, grid, data, calls, connLog>>
    /\ UNCHANGED <<xarg, posted, unpacked>>
    /\ UNCHANGED consolidateVars
    /\ UNCHANGED dataOpVars

\* GridPatch::Receive of the next active patch, at a return of
\* WaitReceive: either a completed receive is unpacked and the loop goes
\* on, or the loop ends and Receive returns.
Receive(r) ==
    /\ err[r] = NoError
    /\ xchg[r].phase = "receive"
    /\ \E patch \in {CurrentPatch(r)} :
       \E e \in {ReceiveError(DataInstances(patch), xarg.eDataType, xarg.iDataIndex)} :
         IF e # NoError
         THEN /\ err' = [err EXCEPT ![r] = e]
              /\ UNCHANGED <<data, net, posted, unpacked, xchg, xcount, xround>>
         ELSE \E pNeighbor \in WaitReceive(patch, posted[r], net) :
                /\ xcount' = [xcount EXCEPT ![r].waited = @ + 1]
                /\ IF ReceiveLoopRuns(pNeighbor)
                   THEN \E msg \in {m \in net :
                                Matches(m, patch.ixPatch, patch.connect[pNeighbor])},
                           wr \in SlotWrites(data[r][patch.ixPatch],
                                    ReceiveArrays(xarg.eDataType, xarg.iDataIndex)) :
                          /\ err' = [err EXCEPT ![r] =
                                        IF wr = "fault" THEN MemoryFault ELSE @]
                          /\ data' = [data EXCEPT ![r][patch.ixPatch] =
                                IF wr = "slots"
                                THEN UnpackBlocks(@, patch.box, patch.connect[pNeighbor],
                                        ReceiveArrays(xarg.eDataType, xarg.iDataIndex),
                                        msg.blocks, 1)
                                ELSE @]
                          /\ net' = net \ {msg}
                          /\ xround' = [xround EXCEPT !.tag =
                                            [m \in (DOMAIN @) \ {msg} |-> @[m]]]
                          /\ posted' = [posted EXCEPT ![r] =
                                            @ \ {<<patch.ixPatch, pNeighbor>>}]
                          /\ unpacked' = [unpacked EXCEPT ![r] =
                                [x \in (DOMAIN @) \cup {<<patch.ixPatch, pNeighbor>>} |->
                                    IF x \in DOMAIN @
                                    THEN (IF x = <<patch.ixPatch, pNeighbor>>
                                          THEN @[x] + 1 ELSE @[x])
                                    ELSE 1]]
                          /\ UNCHANGED xchg
                   ELSE /\ xchg' = [xchg EXCEPT ![r] = Advance(@, ActiveCount(r))]
                        /\ UNCHANGED <<err, data, net, posted, unpacked, xround>>
    /\ UNCHANGED <<nSize, gridBoxes, grid, calls, connLog>>
    /\ UNCHANGED xarg
    /\ UNCHANGED consolidateVars
    /\ UNCHANGED dataOpVars

(***************************************************************************)
(* The exchange specification starts from a grid that every process has    *)
(* distributed and connected without error, with a known pattern in the    *)
(* interior of every field of every patch and zero in the halos.           *)
(***************************************************************************)
FieldNo(f) ==
    CASE f[1] = "StateNode" -> f[2]
      [] f[1] = "StateREdge" -> NumSlots + f[2]
      [] f[1] = "Tracers" -> 2 * NumSlots + f[2]
      [] f[1] = "Vorticity" -> 3 * NumSlots
      [] f[1] = "Divergence" -> 3 * NumSlots + 1
      [] f[1] = "Temperature" -> 3 * NumSlots + 2
      [] f[1] = "TopographyDeriv" -> 3 * NumSlots + 3

\* A value that names the patch, the field and the element it belongs to.
Token(n, f, c) ==
    1 + c[2] + (Res + 2 * HaloElements)
                * (c[1] + (Res + 2 * HaloElements)
                            * (FieldNo(f) + (3 * NumSlots + 4) * n))

InteriorPattern(n, box) ==
    [f \in Fields |-> [c \in Cells(box) |->
        IF IsInterior(box, c) THEN Token(n, f, c) ELSE 0]]

ReadyGrid(boxes, r, size) ==
    Only({ Only({ [g |-> c.g, d |-> dist.d, walked |-> c.walked,
                   err |-> IF dist.err # NoError THEN dist.err ELSE c.err] :
                  c \in {InitializeConnectivityOn(dist.g)} }) :
           dist \in {DistributePatchesOn(AddPatches(EmptyGrid, boxes), <<>>, r, size)} })

\* The arguments Exchange is called with: the six data types it supports,
\* with every slot of State and Tracers, and one data type it does not.
ExchangeArgs ==
    ({"State", "Tracers"} \X Slots)
    \cup ({"Vorticity", "Divergence", "Temperature", "TopographyDeriv",
           "Topography"} \X {0})

\* The grids an Exchange round is run on: whole panels on up to MaxProcs
\* processes; an equatorial or the north panel cut in two on one process.
ExchangeGrids ==
    {GridBoxes(c) : c \in {c \in Cuts : \A p \in Panels : c[p] # "none" => p \in {0, 4}}}

ExchangeSizes(boxes) == IF Len(boxes) = 6 THEN 1 .. MaxProcs ELSE {1}

\* The state in which an Exchange round starts; connected holds the
\* processes that have called InitializeConnectivity.
ExchangeInitOn(boxes, arg, size, ready, connected) ==
        /\ \A r \in 0 .. (size - 1) : ready[r].err = NoError
        /\ nSize = size
        /\ gridBoxes = boxes
        /\ grid = [r \in 0 .. (size - 1) |-> ready[r].g]
        /\ data = [r \in 0 .. (size - 1) |->
                    [n \in DOMAIN ready[r].d |->
                        InteriorPattern(n, GetPatch(ready[r].g, n).box)]]
        /\ err = [r \in 0 .. (size - 1) |-> NoError]
        /\ calls = [r \in 0 .. (size - 1) |->
                        [dist |-> 1, conn |-> IF r \in connected THEN 1 ELSE 0]]
        /\ connLog = [r \in 0 .. (size - 1) |-> ready[r].walked]
        /\ xarg = [eDataType |-> arg[1], iDataIndex |-> arg[2]]
        /\ xchg = [r \in 0 .. (size - 1) |-> [phase |-> "idle", n |-> 0]]
        /\ xcount = [r \in 0 .. (size - 1) |->
                        [barrier |-> FALSE, prepared |-> 0, sent |-> 0, waited |-> 0]]
        /\ posted = [r \in 0 .. (size - 1) |-> {}]
        /\ net = {}
        /\ unpacked = [r \in 0 .. (size - 1) |-> <<>>]
        /\ xround = FirstRound(size)
        /\ ConsolidateIdle(size)
        /\ DataOpIdle(size)

ExchangeInit ==
    \E boxes \in ExchangeGrids, arg \in ExchangeArgs :
     \E size \in ExchangeSizes(boxes) :
      \E ready \in {[r \in 0 .. (size - 1) |-> ReadyGrid(boxes, r, size)]} :
        ExchangeInitOn(boxes, arg, size, ready, 0 .. (size - 1))

ExchangeNext ==
    \/ Barrier
    \/ \E r \in Ranks :
        \/ EnterExchange(r)
        \/ PrepareExchange(r)
        \/ Send(r)
        \/ Receive(r)

SpecExchange == ExchangeInit /\ [][ExchangeNext]_vars

(***************************************************************************)
(* Properties of the halo exchange.                                        *)
(***************************************************************************)
\* The arrays a data type and slot denote.
ExchangedArrays(eDataType, iDataIndex) ==
    CASE eDataType = "State" -> {<<"StateNode", iDataIndex>>, <<"StateREdge", iDataIndex>>}
      [] eDataType = "Tracers" -> {<<"Tracers", iDataIndex>>}
      [] OTHER -> {<<eDataType, 0>>}

ValidExchangeArgs ==
    /\ xarg.eDataType \in {"State", "Tracers", "Vorticity", "Divergence",
                           "Temperature", "TopographyDeriv"}
    /\ xarg.iDataIndex \in Slots

\* Exchange has returned on process r.
ExchangeReturned(r) == (xchg[r].phase = "done") /\ (err[r] = NoError)

\* The element of the grid that local element c of a patch stands for, as
\* <<panel, alpha index, beta index>>, and the local element of a global one.
GlobalOf(box, c) ==
    RelativeCoord(box.panel, box.aBegin + c[1] - HaloElements,
                  box.bBegin + c[2] - HaloElements)

LocalOf(box, gc) ==
    <<gc[2] - box.aBegin + HaloElements, gc[3] - box.bBegin + HaloElements>>

\* The value that the owner of patch n holds at global element gc.
OwnerValue(n, f, gc) ==
    data[GetPatch(grid[0], n).iProcessor][n][f][LocalOf(GetPatch(grid[0], n).box, gc)]

\* C1: after one Exchange round for a data type and slot, every halo
\* element of a receiving patch that a relation to a neighbor covers holds,
\* in every array of that data type and slot, the value the neighbor holds
\* at the interior element of the grid that halo element stands for (the
\* relation's reverse-order / axis-flip transform undone by the geometry).
C1_ExchangeRoundTrip ==
    \A r \in Ranks :
        (ExchangeReturned(r) /\ ValidExchangeArgs) =>
            \A n \in ActivePatches(grid[r]) :
                \A rel \in Range(GetPatch(grid[r], n).connect) :
                    \A ix \in BlockIndex(rel) :
                        \E c \in {RecvCell(GetPatch(grid[r], n).box, rel, ix)} :
                        \E gc \in {GlobalOf(GetPatch(grid[r], n).box, c)} :
                            /\ ~IsInterior(GetPatch(grid[r], n).box, c)
                            /\ (gc # NoCoord) =>
                                /\ ContainsGlobalPoint(
                                        GetPatch(grid[r], rel.ixNeighbor).box, gc)
                                /\ \A f \in ExchangedArrays(xarg.eDataType,
                                                            xarg.iDataIndex) :
                                     data[r][n][f][c] = OwnerValue(rel.ixNeighbor, f, gc)

\* Two processes have completed a round for the second State slot; a patch
\* has a relation across a panel boundary with reversed order whose
\* neighbor is held by the other process.
C1_Witness ==
    /\ nSize > 1
    /\ \A r \in Ranks : ExchangeReturned(r)
    /\ xarg = [eDataType |-> "State", iDataIndex |-> 1]
    /\ \E n \in ActivePatches(grid[0]) :
         \E rel \in Range(GetPatch(grid[0], n).connect) :
             /\ rel.fReverseDirection
             /\ GetPatch(grid[0], rel.ixNeighbor).iProcessor # 0

\* C2: within one Exchange round on a process no receive is posted before
\* every process has entered the barrier, no send is issued before the
\* receives of all its active patches are posted, and no wait for a receive
\* starts before the sends of all its active patches are issued.
C2_ExchangeOrder ==
    \A r \in Ranks :
        /\ (xcount[r].prepared > 0) =>
                (xcount[r].barrier /\ \A q \in Ranks : xchg[q].phase # "idle")
        /\ (xcount[r].sent > 0) => (xcount[r].prepared = ActiveCount(r))
        /\ (xcount[r].waited > 0) => (xcount[r].sent = ActiveCount(r))
        /\ (\E m \in net : GetPatch(grid[0], m.src).iProcessor = r) =>
                (xcount[r].prepared = ActiveCount(r))

\* One process is already waiting for receives while another is still
\* sending.
C2_Witness ==
    \E r, q \in Ranks :
        /\ xcount[r].waited > 0
        /\ xchg[q].phase = "send"
        /\ xcount[q].sent > 0

\* The active patches of process r whose Receive has returned in the round.
ReceiveReturned(r) ==
    IF xchg[r].phase = "done" THEN ActivePatches(grid[r])
    ELSE IF xchg[r].phase = "receive"
         THEN {grid[r].vecActiveGridPatches[k] : k \in 1 .. xchg[r].n}
         ELSE {}

\* C3: when Receive has returned for a patch, none of the receives the
\* patch posted in PrepareExchange is pending and the message of each has
\* been unpacked exactly once; no message is ever unpacked twice.
C3_ReceiveComplete ==
    \A r \in Ranks :
        /\ \A x \in DOMAIN unpacked[r] : unpacked[r][x] = 1
        /\ \A n \in ReceiveReturned(r) :
             \A k \in DOMAIN GetPatch(grid[r], n).connect :
                 /\ <<n, k>> \notin posted[r]
                 /\ <<n, k>> \in DOMAIN unpacked[r]

\* Receive has returned for one patch of a process while another patch of
\* the same process still has receives pending.
C3_Witness ==
    \E r \in Ranks :
        /\ xchg[r].phase = "receive"
        /\ xchg[r].n >= 1
        /\ posted[r] # {}
        /\ ReceiveReturned(r) # {}

\* The messages of the round: what every patch packs on its owner.
RoundMessages ==
    UNION { { [src |-> n, dst |-> rel.ixNeighbor, dir |-> rel.dirOpposing,
               blocks |-> [f \in ExchangedArrays(xarg.eDataType, xarg.iDataIndex) |->
                    Pack(GetPatch(grid[0], n).box, rel,
                         data[GetPatch(grid[0], n).iProcessor][n][f])]] :
              rel \in Range(GetPatch(grid[GetPatch(grid[0], n).iProcessor], n).connect) } :
            n \in 0 .. (Len(gridBoxes) - 1) }

HaloCleared(box, d) ==
    [f \in DOMAIN d |-> [c \in DOMAIN d[f] |->
        IF IsInterior(box, c) THEN d[f][c] ELSE 0]]

\* The field data of a patch after the messages of its relations have been
\* unpacked one relation after the other, from relation k on.
RECURSIVE InRelationOrder(_, _, _, _)
InRelationOrder(d, patch, msgs, k) ==
    IF k > Len(patch.connect) THEN d
    ELSE Only({InRelationOrder(d1, patch, msgs, k + 1) :
            d1 \in {[f \in DOMAIN d |->
                IF f \in ExchangedArrays(xarg.eDataType, xarg.iDataIndex)
                THEN Unpack(patch.box, patch.connect[k], d[f],
                        (CHOOSE m \in msgs :
                            /\ m.dst = patch.ixPatch
                            /\ m.src = patch.connect[k].ixNeighbor
                            /\ m.dir = patch.connect[k].dir).blocks[f])
                ELSE d[f]]}})

\* C4: whatever the order in which the messages of a round arrive and
\* their receives complete, a patch whose Receive has returned (and, once
\* the round is over, every patch) holds the field data obtained by
\* unpacking the messages of its relations one relation after the other.
C4_ArrivalOrderIndependent ==
    ValidExchangeArgs =>
        \A r \in Ranks :
            (err[r] = NoError /\ ReceiveReturned(r) # {}) =>
                \E msgs \in {RoundMessages} :
                    \A n \in ReceiveReturned(r) :
                        data[r][n] = InRelationOrder(
                            HaloCleared(GetPatch(grid[r], n).box, data[r][n]),
                            GetPatch(grid[r], n), msgs, 1)

\* A round is over on a grid with a split panel, where a patch has more
\* than four relations whose messages arrive in any order.
C4_Witness ==
    /\ \A r \in Ranks : ExchangeReturned(r)
    /\ ValidExchangeArgs
    /\ \E n \in ActivePatches(grid[0]) : Len(GetPatch(grid[0], n).connect) > 4

(***************************************************************************)
(* An Exchange round in which some processes have distributed the patches  *)
(* but have not called InitializeConnectivity: their patches have no       *)
(* relation, post no receive and send nothing.                             *)
(***************************************************************************)
UnconnectedGrid(boxes, r, size) ==
    Only({ [g |-> dist.g, d |-> dist.d, walked |-> <<>>, err |-> dist.err] :
           dist \in {DistributePatchesOn(AddPatches(EmptyGrid, boxes), <<>>, r, size)} })

ExchangeStallInit ==
    \E arg \in ExchangeArgs, size \in 1 .. MaxProcs :
     \E connected \in SUBSET (0 .. (size - 1)) :
      \E boxes \in {GridBoxes(NoCut)} :
       \E ready \in {[r \in 0 .. (size - 1) |->
                        IF r \in connected THEN ReadyGrid(boxes, r, size)
                        ELSE UnconnectedGrid(boxes, r, size)]} :
        ExchangeInitOn(boxes, arg, size, ready, connected)

SpecExchangeStall == ExchangeStallInit /\ [][ExchangeNext]_vars

\* Process r has an active patch with a relation that the neighbour patch
\* does not return: the receive posted for it is matched by no send.
Unmatched(r) ==
    \E n \in ActivePatches(grid[r]) :
        \E k \in DOMAIN GetPatch(grid[r], n).connect :
            \E rel \in {GetPatch(grid[r], n).connect[k]} :
                \A back \in Range(GetPatch(
                        grid[GetPatch(grid[r], rel.ixNeighbor).iProcessor],
                        rel.ixNeighbor).connect) :
                    ~(back.ixNeighbor = n /\ back.dir = rel.dirOpposing)

\* Process r waits in WaitReceive with a receive posted and no message for
\* it in flight.
BlockedInReceive(r) ==
    /\ err[r] = NoError
    /\ xchg[r].phase = "receive"
    /\ WaitReceive(CurrentPatch(r), posted[r], net) = {}

\* C16: Exchange has no timeout, cancellation or retry: a process one of
\* whose posted receives is never matched by a send (the neighbour patch
\* has no reciprocal relation, so its owner never sends) never returns
\* from Exchange, neither normally nor with an error.
C16_UnmatchedReceiveBlocks ==
    \A r \in Ranks :
        (ValidExchangeArgs /\ Unmatched(r)) =>
            (xchg[r].phase # "done" /\ err[r] = NoError)

\* A process is blocked in Receive for a message of a patch whose owner has
\* returned from Exchange; no process can take a step.
C16_Witness ==
    /\ ValidExchangeArgs
    /\ \E r \in Ranks :
        /\ Unmatched(r)
        /\ BlockedInReceive(r)
        /\ xcount[r].waited > 0
        /\ \A q \in Ranks \ {r} : xchg[q].phase = "done"

(***************************************************************************)
(* Consolidation of patch data at the root process.                        *)
(***************************************************************************)
\* enum DataType.
DataTypes ==
    <<"State", "Tracers", "Jacobian", "Topography", "Longitude", "Latitude",
      "Z", "Vorticity", "Divergence", "Temperature", "TopographyDeriv">>

DataTypeNo(eDataType) == (CHOOSE i \in DOMAIN DataTypes : DataTypes[i] = eDataType) - 1

\* ConsolidationStatus::GenerateTag and ParseTag: a tag holds the patch
\* index and the data type.
TagBase == 16

GenerateTag(ixPatch, eDataType) == ixPatch * TagBase + DataTypeNo(eDataType)

ParseTag(tag) ==
    [ixPatch |-> tag \div TagBase, eDataType |-> DataTypes[(tag % TagBase) + 1]]

\* ConsolidationStatus: the requested data types and, for every patch of
\* the grid and every requested type, whether it has been received.
NewConsolidationStatus(g, vecDataTypes) ==
    [vecDataTypes |-> vecDataTypes,
     received |-> [x \in (0 .. (GetPatchCount(g) - 1)) \X vecDataTypes |-> FALSE]]

Contains(st, eDataType) == eDataType \in st.vecDataTypes

DoneAnyType(st) ==
    \A x \in DOMAIN st.received : \E y \in DOMAIN st.received :
        y[1] = x[1] /\ st.received[y]

Done(st) == \A x \in DOMAIN st.received : st.received[x]

SetReceiveStatus(st, ixPatch, eDataType) ==
    IF <<ixPatch, eDataType>> \in DOMAIN st.received
    THEN [st EXCEPT !.received[<<ixPatch, eDataType>>] = TRUE]
    ELSE st

\* The number of values of each array ConsolidateDataToRoot sends.
GetTotalElements(box, eDataType, tracers) ==
    CASE eDataType = "State" -> NumComponents * RElements * GetTotalNodes(box)
      [] eDataType = "Tracers" -> tracers * RElements * GetTotalNodes(box)
      [] eDataType \in {"Jacobian", "Z"} -> RElements * GetTotalNodes(box)
      [] OTHER -> GetTotalNodes(box)

\* The data types ConsolidateDataToRoot sends, in the order of its tests.
ConsolidatedTypes ==
    <<"State", "Tracers", "Jacobian", "Topography", "Longitude", "Latitude", "Z">>

SendTagLoopIndex(pPatch, n, eDataType) == GenerateTag(n, eDataType)

\* The tag of the send of one array of the n-th active patch.
SendTag(pPatch, n, eDataType) == GenerateTag(pPatch.ixPatch, eDataType)

\* Faulty variant: the patches of the root are not sent.
PatchSendsNonRoot(st, pPatch, n, tracers) ==
    IF pPatch.iProcessor = 0 THEN <<>>
    ELSE Flatten([k \in DOMAIN ConsolidatedTypes |->
            IF Contains(st, ConsolidatedTypes[k])
            THEN << [ixPatch |-> pPatch.ixPatch,
                     eDataType |-> ConsolidatedTypes[k],
                     dest |-> 0,
                     tag |-> SendTag(pPatch, n, ConsolidatedTypes[k]),
                     count |-> GetTotalElements(pPatch.box, ConsolidatedTypes[k], tracers)] >>
            ELSE <<>>])

\* The sends ConsolidateDataToRoot issues for the n-th active patch.
PatchSends(st, pPatch, n, tracers) ==
    Flatten([k \in DOMAIN ConsolidatedTypes |->
        IF Contains(st, ConsolidatedTypes[k])
        THEN << [ixPatch |-> pPatch.ixPatch,
                 eDataType |-> ConsolidatedTypes[k],
                 dest |-> 0,
                 tag |-> SendTag(pPatch, n, ConsolidatedTypes[k]),
                 count |-> GetTotalElements(pPatch.box, ConsolidatedTypes[k], tracers)] >>
        ELSE <<>>])

TracerError == "Attempting to consolidate empty tracer data"

\* Faulty variant: the tracer count is tested only where the Tracers array
\* of the first patch is about to be sent, after its State array.
ConsolidateDataToRootOnLateCheck(st, g, tracers) ==
    IF Contains(st, "Tracers") /\ tracers = 0
    THEN [err |-> TracerError,
          sends |-> IF g.vecActiveGridPatches = <<>> THEN <<>>
                    ELSE PatchSends([st EXCEPT !.vecDataTypes = @ \cap {"State"}],
                                    GetPatch(g, g.vecActiveGridPatches[1]), 0, tracers)]
    ELSE [err |-> NoError,
          sends |-> Flatten([n \in DOMAIN g.vecActiveGridPatches |->
                        PatchSends(st, GetPatch(g, g.vecActiveGridPatches[n]),
                                   n - 1, tracers)])]

ConsolidateDataToRootOn(st, g, tracers) ==
    IF Contains(st, "Tracers") /\ tracers = 0
    THEN [err |-> TracerError, sends |-> <<>>]
    ELSE [err |-> NoError,
          sends |-> Flatten([n \in DOMAIN g.vecActiveGridPatches |->
                        PatchSends(st, GetPatch(g, g.vecActiveGridPatches[n]),
                                   n - 1, tracers)])]

\* Grid::ConsolidateDataToRoot on process r.
ConsolidateDataToRoot(r) ==
    /\ err[r] = NoError
    /\ cons[r].phase = "idle"
    /\ \E res \in {ConsolidateDataToRootOn(status, grid[r], nTracers)} :
        /\ err' = [err EXCEPT ![r] = res.err]
        /\ cons' = [cons EXCEPT ![r] =
                      [@ EXCEPT !.phase = IF res.err # NoError THEN "idle"
                                          ELSE IF r = 0 THEN "loop" ELSE "done",
                                !.sends = @ \o res.sends]]
        /\ rootNet' = rootNet \cup
                        {[source |-> r, seq |-> Len(cons[r].sends) + i,
                          tag |-> res.sends[i].tag, count |-> res.sends[i].count,
                          ixPatch |-> res.sends[i].ixPatch,
                          eDataType |-> res.sends[i].eDataType] :
                         i \in DOMAIN res.sends}
    /\ UNCHANGED <<status, recvLog, nTracers, nSize, gridBoxes, grid, data, calls, connLog>>
    /\ UNCHANGED exchangeVars
    /\ UNCHANGED dataOpVars

NoOutput == [ixRecvPatch |-> InvalidIndex, eRecvDataType |-> "None", nRecvCount |-> 0]

\* Faulty variant: the upper bound of the range check is off by one.
PatchIndexOutOfRangeOffByOne(ixRecvPatch, nPatches) ==
    (ixRecvPatch < 0) \/ (ixRecvPatch > nPatches)

\* ConsolidateDataAtRoot: the range check of the decoded patch index.
PatchIndexOutOfRange(ixRecvPatch, nPatches) ==
    (ixRecvPatch < 0) \/ (ixRecvPatch >= nPatches)

\* pPatch->GetPatchBox().GetTotalNodes() of the patch a message names.  The
\* range check has passed when the code reads it.
ReceivedPatchNodes(g, ixRecvPatch) ==
    IF (ixRecvPatch >= 0) /\ (ixRecvPatch < GetPatchCount(g))
    THEN GetTotalNodes(GetPatch(g, ixRecvPatch).box)
    ELSE 0

\* ConsolidationStatus::SetReceiveStatus refuses a pair it has already
\* recorded.
DuplicateError == "Receive status already set"

IsDuplicate(st, ixPatch, eDataType) ==
    /\ <<ixPatch, eDataType>> \in DOMAIN st.received
    /\ st.received[<<ixPatch, eDataType>>]

\* The part of ConsolidateDataAtRoot that follows MPI_Recv of msg.
AtRootReceived(st, g, tracers, msg) ==
    \* the bound variable tag holds the parsed tag
    Only({
        IF PatchIndexOutOfRange(tag.ixPatch, GetPatchCount(g))
        THEN [status |-> st, err |-> "Panel tag index out of range",
              out |-> [ixRecvPatch |-> tag.ixPatch, eRecvDataType |-> tag.eDataType,
                       nRecvCount |-> 0]]
        ELSE IF IsDuplicate(st, tag.ixPatch, tag.eDataType)
        THEN [status |-> st, err |-> DuplicateError,
              out |-> [ixRecvPatch |-> tag.ixPatch, eRecvDataType |-> tag.eDataType,
                       nRecvCount |-> 0]]
        ELSE [status |-> SetReceiveStatus(st, tag.ixPatch, tag.eDataType),
              err |->
                LET nodes == RElements * ReceivedPatchNodes(g, tag.ixPatch)
                IN  IF tag.eDataType = "State"
                    THEN IF NumComponents * nodes # msg.count
                         THEN "State dimension mismatch" ELSE NoError
                    ELSE IF tag.eDataType = "Tracers"
                    THEN IF tracers * nodes # msg.count
                         THEN "Tracers dimension mismatch" ELSE NoError
                    ELSE IF tag.eDataType = "Jacobian"
                    THEN IF nodes # msg.count
                         THEN "Jacobian dimension mismatch" ELSE NoError
                    ELSE NoError,
              out |-> [ixRecvPatch |-> tag.ixPatch, eRecvDataType |-> tag.eDataType,
                       nRecvCount |-> msg.count]]
        : tag \in {ParseTag(msg.tag)} })

CompletedError == "Attempting to consolidate data after completion"

\* Faulty variant: the completion check is missing.
AlreadyCompleteUnchecked(st) == FALSE

\* ConsolidateDataAtRoot: the completion check made before the receive.
AlreadyComplete(st) == Done(st)

\* Faulty variant: the rank is tested after the completion check.
ConsolidateDataAtRootOnLateRankTest(st, g, tracers, nRank, inFlight) ==
    IF AlreadyComplete(st)
    THEN {[status |-> st, err |-> CompletedError,
           out |-> NoOutput, msgs |-> {}]}
    ELSE IF nRank # 0
    THEN {[status |-> st, err |-> "Non-root process calling ConsolidateDataAtRoot",
           out |-> NoOutput, msgs |-> {}]}
    ELSE UNION {{[status |-> res.status, err |-> res.err, out |-> res.out,
                  msgs |-> {msg}] :
                    res \in {AtRootReceived(st, g, tracers, msg)}} :
                msg \in inFlight}

\* Grid::ConsolidateDataAtRoot on process r: the outcomes of one call; the
\* receive takes any message sent to the root, and blocks when there is none.
ConsolidateDataAtRootOn(st, g, tracers, nRank, inFlight) ==
    IF nRank # 0
    THEN {[status |-> st, err |-> "Non-root process calling ConsolidateDataAtRoot",
           out |-> NoOutput, msgs |-> {}]}
    ELSE IF AlreadyComplete(st)
    THEN {[status |-> st, err |-> CompletedError,
           out |-> NoOutput, msgs |-> {}]}
    ELSE UNION {{[status |-> res.status, err |-> res.err, out |-> res.out,
                  msgs |-> {msg}] :
                    res \in {AtRootReceived(st, g, tracers, msg)}} :
                msg \in inFlight}

\* One call of ConsolidateDataAtRoot by process r. The root calls it in
\* its receive loop or after the loop has ended; another process calls it
\* after its sends.
ConsolidateDataAtRoot(r) ==
    /\ err[r] = NoError
    /\ cons[r].phase \in {"loop", "done"}
    /\ (cons[r].phase = "loop") => ~Done(status)
    /\ \E res \in ConsolidateDataAtRootOn(status, grid[r], nTracers, r, rootNet) :
        /\ status' = res.status
        /\ err' = [err EXCEPT ![r] = res.err]
        /\ cons' = [cons EXCEPT ![r].out = res.out]
        /\ rootNet' = rootNet \ res.msgs
        /\ recvLog' = [x \in DOMAIN recvLog |->
                        IF \E m \in res.msgs : x = <<m.ixPatch, m.eDataType>>
                        THEN recvLog[x] + 1 ELSE recvLog[x]]
    /\ UNCHANGED <<nTracers, nSize, gridBoxes, grid, data, calls, connLog>>
    /\ UNCHANGED exchangeVars
    /\ UNCHANGED dataOpVars

\* The root leaves its receive loop when the status reports Done().
RootLoopExit(r) ==
    /\ err[r] = NoError
    /\ cons[r].phase = "loop"
    /\ Done(status)
    /\ cons' = [cons EXCEPT ![r].phase = "done"]
    /\ UNCHANGED <<status, rootNet, recvLog, nTracers>>
    /\ UNCHANGED gridVars
    /\ UNCHANGED exchangeVars
    /\ UNCHANGED dataOpVars

\* The grids a consolidation round is run on, the data types it requests
\* and the tracer counts of the model.
ConsolidateGrids == {SubSeq(GridBoxes(NoCut), 1, n) : n \in 1 .. 6}

ConsolidateRequests ==
    {ts \in SUBSET Range(ConsolidatedTypes) : Cardinality(ts) <= MaxRequestTypes}

DistributedGrid(boxes, r, size) ==
    DistributePatchesOn(AddPatches(EmptyGrid, boxes), <<>>, r, size)

\* The state in which a consolidation round starts: the patches are
\* distributed, the status is new, and strays are the messages already in
\* flight to the root.
ConsolidateInitOn(boxes, ts, tracers, size, strays) ==
      \E ready \in {[r \in 0 .. (size - 1) |-> DistributedGrid(boxes, r, size)]} :
        /\ nSize = size
        /\ gridBoxes = boxes
        /\ grid = [r \in 0 .. (size - 1) |-> ready[r].g]
        /\ data = [r \in 0 .. (size - 1) |->
                    [n \in DOMAIN ready[r].d |->
                        [f \in {f \in Fields : tracers = 0 => f[1] # "Tracers"} |->
                            ready[r].d[n][f]]]]
        /\ err = [r \in 0 .. (size - 1) |-> NoError]
        /\ calls = [r \in 0 .. (size - 1) |-> [dist |-> 1, conn |-> 0]]
        /\ connLog = [r \in 0 .. (size - 1) |-> <<>>]
        /\ ExchangeIdle(size)
        /\ status = NewConsolidationStatus(ready[0].g, ts)
        /\ cons = [r \in 0 .. (size - 1) |->
                    [phase |-> "idle", sends |-> <<>>, out |-> NoOutput]]
        /\ rootNet = strays
        /\ recvLog = [x \in (0 .. (Len(boxes) - 1)) \X ts |-> 0]
        /\ nTracers = tracers
        /\ DataOpIdle(size)

ConsolidateInit ==
    \E boxes \in ConsolidateGrids, ts \in ConsolidateRequests, tracers \in {0, MaxTracers} :
     \E size \in 1 .. MaxProcs :
        /\ Len(boxes) * Cardinality(ts) <= MaxConsolidatePairs
        /\ ConsolidateInitOn(boxes, ts, tracers, size, {})

ConsolidateNext ==
    \E r \in Ranks :
        \/ ConsolidateDataToRoot(r)
        \/ ConsolidateDataAtRoot(r)
        \/ RootLoopExit(r)

SpecConsolidate == ConsolidateInit /\ [][ConsolidateNext]_vars

(***************************************************************************)
(* Properties of a consolidation round.                                    *)
(***************************************************************************)
\* The (patch, requested type) pairs of the patches owned by a process
\* other than the root.
NonRootPairs ==
    {x \in DOMAIN status.received : GetPatch(grid[0], x[1]).iProcessor # 0}

\* Every process has made its sends and the root has left its receive loop.
RoundOver == \A r \in Ranks : cons[r].phase = "done"

AllNonRootReceivedOnce == \A x \in NonRootPairs : recvLog[x] = 1

\* C9: after a consolidation round (every process has called
\* ConsolidateDataToRoot and the root has repeated ConsolidateDataAtRoot
\* until it stopped), the status reports Done() exactly when every
\* requested data type of every active patch of a non-root process has
\* been received exactly once; and at no time does the status report
\* Done() while one of them has not been received exactly once.
C9_DoneIffAllReceivedOnce ==
    /\ Done(status) => AllNonRootReceivedOnce
    /\ RoundOver => (Done(status) <=> AllNonRootReceivedOnce)

\* A round of two processes that requests two data types is over, and the
\* root has received the arrays of the other process's patches.
C9_Witness ==
    /\ RoundOver
    /\ nSize > 1
    /\ Cardinality(status.vecDataTypes) = 2
    /\ Cardinality(NonRootPairs) >= 2
    /\ Done(status)
    /\ \A r \in Ranks : err[r] = NoError

\* The sends process r has issued for the array of type t of patch n.
SendsOf(r, n, t) ==
    {i \in DOMAIN cons[r].sends :
        cons[r].sends[i].ixPatch = n /\ cons[r].sends[i].eDataType = t}

\* C10: once ConsolidateDataToRoot has returned on a non-root process,
\* each of its active patches has issued exactly one send for each data
\* type contained in the status and none for any other data type; every
\* send goes to rank 0 with the tag made of the patch's global index and
\* the data type.
C10_OneSendPerContainedType ==
    \A r \in Ranks \ {0} :
        (cons[r].phase # "idle") =>
            \A n \in ActivePatches(grid[r]), t \in Range(DataTypes) :
                /\ Cardinality(SendsOf(r, n, t)) =
                        (IF t \in status.vecDataTypes THEN 1 ELSE 0)
                /\ \A i \in SendsOf(r, n, t) :
                        /\ cons[r].sends[i].dest = 0
                        /\ cons[r].sends[i].tag = n * TagBase + DataTypeNo(t)
                        /\ ParseTag(cons[r].sends[i].tag) =
                                [ixPatch |-> n, eDataType |-> t]

\* A non-root process with several active patches has made its sends for
\* a status that contains two data types.
C10_Witness ==
    \E r \in Ranks \ {0} :
        /\ cons[r].phase = "done"
        /\ Cardinality(ActivePatches(grid[r])) >= 2
        /\ Cardinality(status.vecDataTypes) = 2
        /\ Len(cons[r].sends) = 2 * Cardinality(ActivePatches(grid[r]))

\* C15: when the status requests tracer data and the model has zero
\* tracers, ConsolidateDataToRoot raises "Attempting to consolidate empty
\* tracer data" before it issues any send: no process has sent anything,
\* for any data type, from any patch, and every call has ended in the error.
C15_EmptyTracersSendNothing ==
    (Contains(status, "Tracers") /\ nTracers = 0) =>
        /\ rootNet = {}
        /\ \A r \in Ranks :
            /\ cons[r].sends = <<>>
            /\ cons[r].phase = "idle"
            /\ err[r] \in {NoError, TracerError}

\* Two processes with active patches have called ConsolidateDataToRoot for
\* State and Tracers in a model without tracers.
C15_Witness ==
    /\ status.vecDataTypes = {"State", "Tracers"}
    /\ nTracers = 0
    /\ nSize = 2
    /\ \A r \in Ranks : err[r] = TracerError /\ ActivePatches(grid[r]) # {}

(***************************************************************************)
(* A consolidation round between processes that are out of step: when the *)
(* round starts, one message that no ConsolidateDataToRoot of the round    *)
(* has sent is in flight to the root.  Its tag names a patch index up to   *)
(* one beyond the last patch and a requested data type; its element count  *)
(* is the one of that array or one less.                                   *)
(***************************************************************************)
StrayMessages(boxes, ts, tracers, size) ==
    UNION {
        {[source |-> size - 1, seq |-> 0, tag |-> GenerateTag(ix, t),
          count |-> expected - short,
          ixPatch |-> InvalidIndex, eDataType |-> "None"] :
            short \in {0, 1},
            expected \in {GetTotalElements(
                            boxes[IF ix < Len(boxes) THEN ix + 1 ELSE 1], t, tracers)}} :
        ix \in 0 .. Len(boxes), t \in ts}

ConsolidateFaultInit ==
    \E boxes \in {bs \in ConsolidateGrids : Len(bs) <= MaxFaultPatches},
       ts \in ConsolidateRequests \ {{}}, size \in 1 .. MaxProcs :
        \E stray \in StrayMessages(boxes, ts, MaxTracers, size) :
            ConsolidateInitOn(boxes, ts, MaxTracers, size, {stray})

SpecConsolidateFault == ConsolidateFaultInit /\ [][ConsolidateNext]_vars

\* The message the root's last call of ConsolidateDataAtRoot received names
\* a patch of the grid, and its element count is not the size of the array
\* of its data type on that patch.
LastCountMismatch ==
    /\ cons[0].out.ixRecvPatch >= 0
    /\ cons[0].out.ixRecvPatch < GetPatchCount(grid[0])
    /\ cons[0].out.nRecvCount #
            GetTotalElements(GetPatch(grid[0], cons[0].out.ixRecvPatch).box,
                             cons[0].out.eRecvDataType, nTracers)

\* C11: for every message that arrives in ConsolidateDataAtRoot, whatever
\* its data type, an element count that differs from the count expected
\* from the patch's geometry and the component and tracer counts raises a
\* fatal error.
C11_EveryTypeCountChecked ==
    LastCountMismatch => err[0] # NoError

\* C12: ConsolidateDataAtRoot records a pair as received only for a message
\* that has passed the range check and the element-count check: a call
\* that changes the status raises no error, and a call that raises an
\* error leaves the status as it was.
C12_RecordedOnlyAfterChecks ==
    [][(status' # status) => (err'[0] = NoError)]_vars

\* The decoded patch index of a message is outside [0, number of patches).
TagOutOfRange(m) ==
    (m.tag \div TagBase) \notin (0 .. (Len(gridBoxes) - 1))

\* C13: a message whose decoded patch index lies outside [0, number of
\* patches) makes ConsolidateDataAtRoot raise "Panel tag index out of
\* range", and the call records no pair as received.
C13_OutOfRangeRejected ==
    [][\A m \in rootNet \ rootNet' :
            TagOutOfRange(m) =>
                /\ err'[0] = "Panel tag index out of range"
                /\ status' = status]_vars

\* The root has received a message that names the patch index one beyond
\* the last patch.
C13_Witness ==
    /\ err[0] = "Panel tag index out of range"
    /\ cons[0].out.ixRecvPatch = Len(gridBoxes)
    /\ \A x \in DOMAIN status.received : x[1] < Len(gridBoxes)

\* C14: a call of ConsolidateDataAtRoot made when Done() holds raises
\* "Attempting to consolidate data after completion" before any receive:
\* no message in flight is consumed and the status is unchanged.
C14_CallAfterDoneRejected ==
    [][Done(status) =>
            /\ status' = status
            /\ rootNet \subseteq rootNet'
            /\ (err'[0] # err[0]) => (err'[0] = CompletedError)]_vars

\* The root has called ConsolidateDataAtRoot after completion while a
\* message was in flight to it; the message is still in flight.
C14_Witness ==
    /\ err[0] = CompletedError
    /\ Done(status)
    /\ rootNet # {}
    /\ status.vecDataTypes # {}

(***************************************************************************)
(* Properties of the relations InitializeConnectivity builds, stated       *)
(* against the boundary samples of each patch.                             *)
(***************************************************************************)
\* The patches process r has walked to the end.
WalkedPatches(r) ==
    IF err[r] \in {InsufficientError, "Index mismatch"} THEN {}
    ELSE {connLog[r][k].ixPatch : k \in DOMAIN connLog[r]}

\* The patch index resolved for each boundary sample of patch n.
ResolvedSamples(r, n) ==
    GetPatchFromCoordinateIndex(grid[r], BoundarySamples(GetPatch(grid[r], n).box))

AWidth(box) == GetAInteriorEnd(box) - GetAInteriorBegin(box)

BWidth(box) == GetBInteriorEnd(box) - GetBInteriorBegin(box)

\* Position of the sample of a corner among the samples of a patch.
CornerSampleIndex(box, dir) ==
    CASE dir = "BottomLeft" -> 1
      [] dir = "BottomRight" -> AWidth(box) + 2
      [] dir = "TopRight" -> AWidth(box) + BWidth(box) + 3
      [] dir = "TopLeft" -> 2 * AWidth(box) + BWidth(box) + 4

\* The two edge samples next to the sample at position c.
AdjacentSamples(vecPatch, c) ==
    {vecPatch[IF c = 1 THEN Len(vecPatch) ELSE c - 1], vecPatch[c + 1]}

\* The interior element at a corner of the patch.
CornerElement(box, dir) ==
    CASE dir = "BottomLeft" -> <<GetAInteriorBegin(box), GetBInteriorBegin(box)>>
      [] dir = "BottomRight" -> <<GetAInteriorEnd(box) - 1, GetBInteriorBegin(box)>>
      [] dir = "TopRight" -> <<GetAInteriorEnd(box) - 1, GetBInteriorEnd(box) - 1>>
      [] dir = "TopLeft" -> <<GetAInteriorBegin(box), GetBInteriorEnd(box) - 1>>

\* The standalone corner relations of a patch in direction dir: those at
\* the corner element (a diagonal made at a change of neighbor along an
\* edge never lies at the corner element of its own direction).
CornerRelations(patch, dir) ==
    {k \in DOMAIN patch.connect :
        /\ patch.connect[k].dir = dir
        /\ <<patch.connect[k].ixFirst, patch.connect[k].ixSecond>>
                = CornerElement(patch.box, dir)}

\* C17 as stated: a corner sample produces a standalone corner relation
\* only if the patch it resolves to differs from the patches resolved for
\* both edge samples next to that corner.
C17_CornerOnlyIfDistinct ==
    \A r \in Ranks : \A n \in WalkedPatches(r), dir \in CornerDirections :
        \E patch \in {GetPatch(grid[r], n)}, vecPatch \in {ResolvedSamples(r, n)} :
            (CornerRelations(patch, dir) # {}) =>
                vecPatch[CornerSampleIndex(patch.box, dir)]
                    \notin AdjacentSamples(vecPatch, CornerSampleIndex(patch.box, dir))

\* C17 amended: a corner sample produces a standalone corner relation
\* exactly when it resolves to a patch; the relation is to that patch, also
\* when an edge sample next to the corner resolves to the same patch.
C17_CornerIffResolved ==
    \A r \in Ranks : \A n \in WalkedPatches(r), dir \in CornerDirections :
        \E patch \in {GetPatch(grid[r], n)}, vecPatch \in {ResolvedSamples(r, n)} :
            \E c \in {CornerSampleIndex(patch.box, dir)} :
                /\ (vecPatch[c] = InvalidIndex) => (CornerRelations(patch, dir) = {})
                /\ (vecPatch[c] # InvalidIndex) =>
                        /\ Cardinality(CornerRelations(patch, dir)) = 1
                        /\ \A k \in CornerRelations(patch, dir) :
                                patch.connect[k].ixNeighbor = vecPatch[c]

\* A walked patch has a corner relation to the patch that an edge sample
\* next to that corner resolves to, and another corner without relation.
C17_Witness ==
    \E r \in Ranks : \E n \in WalkedPatches(r), dir \in CornerDirections :
        \E patch \in {GetPatch(grid[r], n)}, vecPatch \in {ResolvedSamples(r, n)} :
            /\ CornerRelations(patch, dir) # {}
            /\ vecPatch[CornerSampleIndex(patch.box, dir)]
                    \in AdjacentSamples(vecPatch, CornerSampleIndex(patch.box, dir))
            /\ \E d2 \in CornerDirections : CornerRelations(patch, d2) = {}

(***************************************************************************)
(* The samples of one edge, in the order of the walk: position k of the    *)
(* edge is [patch, t], the patch resolved for the sample and the interior  *)
(* element of the patch the sample lies next to (its index along the       *)
(* edge).  The bottom and right edges are walked upwards, the top and left *)
(* edges downwards.                                                        *)
(***************************************************************************)
EdgeWidth(box, dir) ==
    IF dir \in {"Bottom", "Top"} THEN AWidth(box) ELSE BWidth(box)

EdgeSamples(box, vecPatch, dir) ==
    [k \in 1 .. EdgeWidth(box, dir) |->
        CASE dir = "Bottom" ->
                [patch |-> vecPatch[1 + k],
                 t |-> GetAInteriorBegin(box) + k - 1]
          [] dir = "Right" ->
                [patch |-> vecPatch[AWidth(box) + 2 + k],
                 t |-> GetBInteriorBegin(box) + k - 1]
          [] dir = "Top" ->
                [patch |-> vecPatch[AWidth(box) + BWidth(box) + 3 + k],
                 t |-> GetAInteriorEnd(box) - k]
          [] dir = "Left" ->
                [patch |-> vecPatch[2 * AWidth(box) + BWidth(box) + 4 + k],
                 t |-> GetBInteriorEnd(box) - k]]

\* The positions at which a maximal run of samples of one patch starts.
RunStarts(es) ==
    {k \in DOMAIN es : (k = 1) \/ (es[k].patch # es[k - 1].patch)}

\* The last position of the run that starts at position s.
RunLast(es, s) ==
    CHOOSE k \in s .. Len(es) :
        /\ \A j \in s .. k : es[j].patch = es[s].patch
        /\ (k = Len(es)) \/ (es[k + 1].patch # es[s].patch)

\* The runs of an edge as <<first element, one past the last element,
\* patch>>.
EdgeRuns(es) ==
    {<<IF es[s].t <= es[RunLast(es, s)].t THEN es[s].t ELSE es[RunLast(es, s)].t,
       Max(es[s].t, es[RunLast(es, s)].t) + 1,
       es[s].patch>> : s \in RunStarts(es)}

\* The relations of a patch in an edge direction.
EdgeRelations(patch, dir) ==
    {k \in DOMAIN patch.connect : patch.connect[k].dir = dir}

EdgeInterior(box, dir) ==
    IF dir \in {"Bottom", "Top"}
    THEN GetAInteriorBegin(box) .. (GetAInteriorEnd(box) - 1)
    ELSE GetBInteriorBegin(box) .. (GetBInteriorEnd(box) - 1)

\* C18: for each edge of a patch walked by InitializeConnectivity, there is
\* exactly one edge relation per maximal run of samples resolving to one
\* patch; the relation spans the elements of its run and its neighbor is
\* the patch of the run; the ranges of the relations of an edge are
\* pairwise disjoint and together cover the interior range of the edge.
C18_OneRelationPerRun ==
    \A r \in Ranks : \A n \in WalkedPatches(r), dir \in EdgeDirections :
        \E patch \in {GetPatch(grid[r], n)} :
        \E es \in {EdgeSamples(patch.box, ResolvedSamples(r, n), dir)} :
        \E rel \in {EdgeRelations(patch, dir)} :
            /\ Cardinality(rel) = Cardinality(RunStarts(es))
            /\ {<<patch.connect[k].ixFirst, patch.connect[k].ixSecond,
                  patch.connect[k].ixNeighbor>> : k \in rel} = EdgeRuns(es)
            /\ \A k1, k2 \in rel :
                    (k1 # k2) =>
                        (patch.connect[k1].ixFirst .. (patch.connect[k1].ixSecond - 1))
                          \cap (patch.connect[k2].ixFirst .. (patch.connect[k2].ixSecond - 1))
                          = {}
            /\ UNION {patch.connect[k].ixFirst .. (patch.connect[k].ixSecond - 1) :
                        k \in rel} = EdgeInterior(patch.box, dir)

\* A walked patch has an edge of two runs and an edge of one run.
C18_Witness ==
    \E r \in Ranks : \E n \in WalkedPatches(r), d1, d2 \in EdgeDirections :
        \E patch \in {GetPatch(grid[r], n)} :
            /\ Cardinality(RunStarts(
                    EdgeSamples(patch.box, ResolvedSamples(r, n), d1))) = 2
            /\ Cardinality(EdgeRelations(patch, d1)) = 2
            /\ Cardinality(RunStarts(
                    EdgeSamples(patch.box, ResolvedSamples(r, n), d2))) = 1
            /\ Cardinality(EdgeRelations(patch, d2)) = 1

(***************************************************************************)
(* The diagonal relations made at a change of neighbor along an edge.      *)
(***************************************************************************)
\* The interior element at index t along an edge: <<alpha, beta>>.
EdgeElement(box, dir, t) ==
    CASE dir = "Bottom" -> <<t, GetBInteriorBegin(box)>>
      [] dir = "Right" -> <<GetAInteriorEnd(box) - 1, t>>
      [] dir = "Top" -> <<t, GetBInteriorEnd(box) - 1>>
      [] dir = "Left" -> <<GetAInteriorBegin(box), t>>

\* The diagonal direction that points from an element of an edge across
\* the edge, toward lower or toward higher indices along the edge.
DiagonalToward(dir, lower) ==
    CASE dir = "Bottom" -> IF lower THEN "BottomLeft" ELSE "BottomRight"
      [] dir = "Right" -> IF lower THEN "BottomRight" ELSE "TopRight"
      [] dir = "Top" -> IF lower THEN "TopLeft" ELSE "TopRight"
      [] dir = "Left" -> IF lower THEN "BottomLeft" ELSE "TopLeft"

\* The positions of an edge at which the neighbor changes.
RunBoundaries(es) == RunStarts(es) \ {1}

\* The diagonal relations of a patch that belong to an edge: those in a
\* diagonal direction across the edge, at an element of the edge, that are
\* not the standalone relation of a corner.
RunBoundaryDiagonals(patch, dir) ==
    {k \in DOMAIN patch.connect :
        /\ patch.connect[k].dir \in {DiagonalToward(dir, TRUE), DiagonalToward(dir, FALSE)}
        /\ \E t \in EdgeInterior(patch.box, dir) :
                <<patch.connect[k].ixFirst, patch.connect[k].ixSecond>>
                    = EdgeElement(patch.box, dir, t)
        /\ k \notin CornerRelations(patch, patch.connect[k].dir)}

\* The two diagonals the change of neighbor at position k calls for, as
\* <<direction, element, neighbor>>: from the element after the change to
\* the patch before it, and from the element before it to the patch after.
BoundaryDiagonals(box, es, dir, k) ==
    {<<DiagonalToward(dir, es[k - 1].t < es[k].t),
       EdgeElement(box, dir, es[k].t), es[k - 1].patch>>,
     <<DiagonalToward(dir, es[k].t < es[k - 1].t),
       EdgeElement(box, dir, es[k - 1].t), es[k].patch>>}

\* C19: for each edge of a walked patch, the diagonal relations made along
\* the edge are exactly two per change of neighbor: from the element after
\* the change to the patch before it and from the element before the
\* change to the patch after it, each in the diagonal direction pointing
\* from the element toward that patch; k runs give 2 (k - 1) relations.
C19_TwoDiagonalsPerRunBoundary ==
    \A r \in Ranks : \A n \in WalkedPatches(r), dir \in EdgeDirections :
        \E patch \in {GetPatch(grid[r], n)} :
        \E es \in {EdgeSamples(patch.box, ResolvedSamples(r, n), dir)} :
        \E rel \in {RunBoundaryDiagonals(patch, dir)} :
            /\ Cardinality(rel) = 2 * (Cardinality(RunStarts(es)) - 1)
            /\ {<<patch.connect[k].dir,
                  <<patch.connect[k].ixFirst, patch.connect[k].ixSecond>>,
                  patch.connect[k].ixNeighbor>> : k \in rel}
                = UNION {BoundaryDiagonals(patch.box, es, dir, k) :
                            k \in RunBoundaries(es)}

\* A walked patch has an edge walked upwards and an edge walked downwards
\* with a change of neighbor, each with its two diagonal relations.
C19_Witness ==
    \E r \in Ranks : \E n1, n2 \in WalkedPatches(r) :
        \E d1 \in {"Bottom", "Right"}, d2 \in {"Top", "Left"} :
        \E p1 \in {GetPatch(grid[r], n1)}, p2 \in {GetPatch(grid[r], n2)} :
            /\ RunBoundaries(EdgeSamples(p1.box, ResolvedSamples(r, n1), d1)) # {}
            /\ Cardinality(RunBoundaryDiagonals(p1, d1)) = 2
            /\ RunBoundaries(EdgeSamples(p2.box, ResolvedSamples(r, n2), d2)) # {}
            /\ Cardinality(RunBoundaryDiagonals(p2, d2)) = 2

(***************************************************************************)
(* GridPatch::ExteriorConnect called directly for the patches of panel 0,  *)
(* on grids built with a halo width of 1 .. MaxHaloElements.  In this      *)
(* specification connLog[r] lists the arguments of the calls process r has *)
(* made.                                                                   *)
(***************************************************************************)
WithHalo(boxes, h) == [k \in DOMAIN boxes |-> [boxes[k] EXCEPT !.halo = h]]

\* The patches the boundary samples of patch n resolve to.
NeighborPatches(g, n) ==
    {ix \in 0 .. (GetPatchCount(g) - 1) :
        \E vecPatch \in {GetPatchFromCoordinateIndex(g,
                            BoundarySamples(GetPatch(g, n).box))} :
            \E k \in DOMAIN vecPatch : vecPatch[k] = ix}

\* The calls made for patch n: for an edge direction one call per run of
\* the edge, as InitializeConnectivity makes them; for a diagonal direction
\* a call for any interior element and any patch next to patch n.
ConnectCalls(g, n) ==
    LET box      == GetPatch(g, n).box
        vecPatch == GetPatchFromCoordinateIndex(g, BoundarySamples(box))
    IN  UNION {{[ixPatch |-> n, dir |-> dir, ixNeighbor |-> run[3],
                 ixFirst |-> run[1], ixSecond |-> run[2]] :
                    run \in EdgeRuns(EdgeSamples(box, vecPatch, dir))} :
                dir \in EdgeDirections}
        \cup
        {[ixPatch |-> n, dir |-> dir, ixNeighbor |-> ixSecondPatch,
          ixFirst |-> a, ixSecond |-> b] :
            dir \in CornerDirections, ixSecondPatch \in NeighborPatches(g, n),
            a \in GetAInteriorBegin(box) .. (GetAInteriorEnd(box) - 1),
            b \in GetBInteriorBegin(box) .. (GetBInteriorEnd(box) - 1)}

ExteriorConnectCall(r) ==
    /\ err[r] = NoError
    /\ Len(connLog[r]) < MaxConnectCalls
    /\ \E n \in {k \in 0 .. (GetPatchCount(grid[r]) - 1) :
                        GetPatch(grid[r], k).box.panel = 0} :
       \E call \in ConnectCalls(grid[r], n), patch \in {GetPatch(grid[r], n)} :
       \E cs \in {ExteriorConnect([connect |-> patch.connect, err |-> NoError],
                                  patch.box, call.dir,
                                  GetPatch(grid[r], call.ixNeighbor),
                                  call.ixFirst, call.ixSecond)} :
            /\ grid' = [grid EXCEPT ![r].vecGridPatches[n + 1].connect = cs.connect]
            /\ err' = [err EXCEPT ![r] = cs.err]
            /\ connLog' = [connLog EXCEPT ![r] = Append(@, call)]
    /\ UNCHANGED <<nSize, gridBoxes, data, calls>>
    /\ UNCHANGED exchangeVars
    /\ UNCHANGED consolidateVars
    /\ UNCHANGED dataOpVars

\* The grids of the direct calls: panel 0 whole or cut in two.
ConnectCuts == {c \in Cuts : \A p \in Panels \ {0} : c[p] = "none"}

ConnectInit ==
    \E c \in ConnectCuts, h \in 1 .. MaxHaloElements :
        GridInit(WithHalo(GridBoxes(c), h), 1)

ConnectNext == \E r \in Ranks : ExteriorConnectCall(r)

SpecConnect == ConnectInit /\ [][ConnectNext]_vars

\* The number of interior elements of the patch from the element ix on,
\* going away from the corner the direction names: along alpha, along beta.
InteriorExtent(box, dir, ix) ==
    <<Cardinality({a \in GetAInteriorBegin(box) .. (GetAInteriorEnd(box) - 1) :
            IF dir \in {"TopRight", "BottomRight"} THEN a <= ix[1] ELSE a >= ix[1]}),
      Cardinality({b \in GetBInteriorBegin(box) .. (GetBInteriorEnd(box) - 1) :
            IF dir \in {"TopRight", "TopLeft"} THEN b <= ix[2] ELSE b >= ix[2]})>>

SlotArgs == {"State", "Tracers"} \X {-1, NumSlots, NumSlots + 1}

ExchangeSlotsInit ==
    \E arg \in SlotArgs, size \in 1 .. MaxProcs :
      \E ready \in {[r \in 0 .. (size - 1) |->
                        ReadyGrid(GridBoxes(NoCut), r, size)]} :
        ExchangeInitOn(GridBoxes(NoCut), arg, size, ready, 0 .. (size - 1))

SpecExchangeSlots == ExchangeSlotsInit /\ [][ExchangeNext]_vars

\* The exception of Send and Receive for a slot index that is out of range.
InstanceError(eDataType) ==
    IF eDataType = "State" THEN "Invalid state data instance."
    ELSE "Invalid tracers data instance."

\* Process r takes a step of GridPatch::Send or GridPatch::Receive.
SendOrReceiveStep(r) ==
    /\ xchg[r].phase \in {"send", "receive"}
    /\ (xchg'[r] # xchg[r]) \/ (err'[r] # err[r]) \/ (xcount'[r] # xcount[r])

\* C21: Send and Receive for State or Tracers data called with a slot
\* index outside [0, number of slots) raise the 'Invalid ... data instance'
\* error, and nothing was sent, unpacked or written.
C21_SlotIndexChecked ==
    [][\A r \in Ranks :
        (/\ xarg.eDataType \in {"State", "Tracers"}
         /\ xarg.iDataIndex \notin Slots
         /\ SendOrReceiveStep(r)) =>
            /\ err'[r] = InstanceError(xarg.eDataType)
            /\ net' = net
            /\ data' = data]_vars

(***************************************************************************)
(* The slot operations of a patch: GridPatch::CopyData, LinearCombineData, *)
(* ZeroData and AddReferenceState.  d is the field data of the patch, <<>> *)
(* for a patch without data; the result is [err, d].                       *)
(***************************************************************************)
\* DataArray::IsInitialized of a field array of the patch.
IsInitialized(d, f) == f \in DOMAIN d

\* The arrays a slot operation works on.
SlotArrays(eDataType, ix) ==
    IF eDataType = "State" THEN {<<"StateNode", ix>>, <<"StateREdge", ix>>}
    ELSE {<<"Tracers", ix>>}

\* operator= of two arrays of a slot vector: the arrays of a model without
\* tracers are unallocated, and assigning one to the other changes nothing.
AssignSlot(d, eDataType, ixDest, ixSource) ==
    [f \in DOMAIN d |->
        IF (f \in SlotArrays(eDataType, ixDest)) /\ (<<f[1], ixSource>> \in DOMAIN d)
        THEN d[<<f[1], ixSource>>] ELSE d[f]]

\* Faulty variant: the destination index is not tested, and a destination
\* out of range overwrites the first slot.
CopyDataUncheckedDest(patch, d, ixSource, ixDest, eDataType) ==
    IF eDataType \notin {"State", "Tracers"}
    THEN [err |-> "Invalid DataType specified for CopyData.", d |-> d]
    ELSE IF (ixSource < 0) \/ (ixSource >= DataInstances(patch))
    THEN [err |-> "Invalid ixSource index in CopyData.", d |-> d]
    ELSE IF (ixDest < 0) \/ (ixDest >= DataInstances(patch))
    THEN [err |-> "Invalid ixDest index in CopyData.",
          d |-> AssignSlot(d, eDataType, 0, ixSource)]
    ELSE [err |-> NoError, d |-> AssignSlot(d, eDataType, ixDest, ixSource)]

\* GridPatch::CopyData
CopyDataOn(patch, d, ixSource, ixDest, eDataType) ==
    IF eDataType \in {"State", "Tracers"} THEN
        IF (ixSource < 0) \/ (ixSource >= DataInstances(patch))
        THEN [err |-> "Invalid ixSource index in CopyData.", d |-> d]
        ELSE IF (ixDest < 0) \/ (ixDest >= DataInstances(patch))
        THEN [err |-> "Invalid ixDest index in CopyData.", d |-> d]
        ELSE [err |-> NoError, d |-> AssignSlot(d, eDataType, ixDest, ixSource)]
    ELSE [err |-> "Invalid DataType specified for CopyData.", d |-> d]

\* DataArray::Zero / Scale of the arrays of slot ix.
ScaleSlot(d, eDataType, ix, coeff) ==
    [f \in DOMAIN d |->
        IF f \in SlotArrays(eDataType, ix)
        THEN [c \in DOMAIN d[f] |-> IF coeff = 0 THEN 0 ELSE coeff * d[f][c]]
        ELSE d[f]]

\* Faulty variant: the source slot is added without its coefficient.
AddProductSlotUnweighted(d, eDataType, ixDest, m, coeff) ==
    [f \in DOMAIN d |->
        IF f \in SlotArrays(eDataType, ixDest)
        THEN [c \in DOMAIN d[f] |-> d[f][c] + d[<<f[1], m>>][c]]
        ELSE d[f]]

\* DataArray::AddProduct: slot ixDest += coeff * slot m.
AddProductSlot(d, eDataType, ixDest, m, coeff) ==
    [f \in DOMAIN d |->
        IF f \in SlotArrays(eDataType, ixDest)
        THEN [c \in DOMAIN d[f] |-> d[f][c] + coeff * d[<<f[1], m>>][c]]
        ELSE d[f]]

\* The loop "Consider all other terms", from term m on.
RECURSIVE CombineTerms(_, _, _, _, _)
CombineTerms(d, eDataType, ixDest, dCoeff, m) ==
    IF m >= Len(dCoeff) THEN d
    ELSE IF (m = ixDest) \/ (dCoeff[m + 1] = 0)
    THEN CombineTerms(d, eDataType, ixDest, dCoeff, m + 1)
    ELSE Only({CombineTerms(d1, eDataType, ixDest, dCoeff, m + 1) :
               d1 \in {AddProductSlot(d, eDataType, ixDest, m, dCoeff[m + 1])}})

\* GridPatch::LinearCombineData; dCoeff[m + 1] is the coefficient of slot m.
LinearCombineDataOn(patch, d, dCoeff, ixDest, eDataType) ==
    IF ixDest >= Len(dCoeff)
    THEN [err |-> "Destination index out of coefficient bounds", d |-> d]
    ELSE IF eDataType \in {"State", "Tracers"} THEN
        IF (ixDest < 0) \/ (ixDest >= DataInstances(patch))
        THEN [err |-> "Invalid ixDest index in LinearCombineData.", d |-> d]
        ELSE IF Len(dCoeff) > DataInstances(patch)
        THEN [err |-> "Too many elements in coefficient vector.", d |-> d]
        ELSE IF (eDataType = "Tracers") /\ ~IsInitialized(d, <<"Tracers", ixDest>>)
        THEN [err |-> NoError, d |-> d]
        ELSE [err |-> NoError,
              d |-> Only({CombineTerms(d1, eDataType, ixDest, dCoeff, 0) :
                          d1 \in {ScaleSlot(d, eDataType, ixDest, dCoeff[ixDest + 1])}})]
    ELSE [err |-> "Invalid DataType specified for LinearCombineData.", d |-> d]

\* Faulty variant: zeroing a tracer array that is not allocated raises.
ZeroDataOnUnallocatedRaises(patch, d, ixData, eDataType) ==
    IF eDataType \in {"State", "Tracers"} THEN
        IF (ixData < 0) \/ (ixData >= DataInstances(patch))
        THEN [err |-> "Invalid ixData index in LinearCombineData.", d |-> d]
        ELSE IF (eDataType = "Tracers") /\ ~IsInitialized(d, <<"Tracers", ixData>>)
        THEN [err |-> "Attempting to zero empty tracer data", d |-> d]
        ELSE [err |-> NoError, d |-> ScaleSlot(d, eDataType, ixData, 0)]
    ELSE [err |-> "Invalid DataType specified for LinearCombineData.", d |-> d]

\* GridPatch::ZeroData (its messages name LinearCombineData)
ZeroDataOn(patch, d, ixData, eDataType) ==
    IF eDataType \in {"State", "Tracers"} THEN
        IF (ixData < 0) \/ (ixData >= DataInstances(patch))
        THEN [err |-> "Invalid ixData index in LinearCombineData.", d |-> d]
        ELSE IF (eDataType = "Tracers") /\ ~IsInitialized(d, <<"Tracers", ixData>>)
        THEN [err |-> NoError, d |-> d]
        ELSE [err |-> NoError, d |-> ScaleSlot(d, eDataType, ixData, 0)]
    ELSE [err |-> "Invalid DataType specified for LinearCombineData.", d |-> d]

\* m_dataRefStateNode, the reference state of the test case: one everywhere.
ReferenceState(box) == [c \in Cells(box) |-> 1]

\* GridPatch::AddReferenceState
AddReferenceStateOn(patch, d, ix) ==
    IF (ix < 0) \/ (ix >= DataInstances(patch))
    THEN [err |-> "Invalid ix in AddReferenceState.", d |-> d]
    ELSE [err |-> NoError,
          d |-> [d EXCEPT ![<<"StateNode", ix>>] =
                    [c \in DOMAIN @ |-> @[c] + ReferenceState(patch.box)[c]]]]

(***************************************************************************)
(* The slot operations called on the patches of a distributed grid, with   *)
(* valid and invalid arguments, on patches with data and on stubs.         *)
(***************************************************************************)
MaxDataCalls == 2

\* Slot indices: one below the range, the slots, one above.
SlotIndices == -1 .. NumSlots

\* State, Tracers and a data type the slot operations do not support.
SlotDataTypes == {"State", "Tracers", "Vorticity"}

\* Coefficient vectors of up to one more entry than there are slots.
CoeffVectors == UNION {[1 .. k -> {0, 2}] : k \in 0 .. (NumSlots + 1)}

PatchData(r, n) == IF n \in DOMAIN data[r] THEN data[r][n] ELSE <<>>

\* The call is made and recorded: an exception ends the process, and the
\* arrays of the patch are as the operation leaves them.
DataCall(r, n, call, res) ==
    /\ op' = [call EXCEPT !.r = r, !.ixPatch = n, !.nCalls = op.nCalls + 1]
    /\ err' = [err EXCEPT ![r] = res.err]
    /\ data' = IF n \in DOMAIN data[r] THEN [data EXCEPT ![r][n] = res.d] ELSE data
    /\ UNCHANGED <<nSize, gridBoxes, grid, calls, connLog, cksum>>
    /\ UNCHANGED exchangeVars
    /\ UNCHANGED consolidateVars

DataCallEnabled(r) == (err[r] = NoError) /\ (op.nCalls < MaxDataCalls)

CopyData(r) ==
    /\ DataCallEnabled(r)
    /\ \E n \in 0 .. (GetPatchCount(grid[r]) - 1), eDataType \in SlotDataTypes,
          ixSource \in SlotIndices, ixDest \in SlotIndices :
         DataCall(r, n,
                  [NoCall EXCEPT !.name = "CopyData", !.eDataType = eDataType,
                                 !.ixSource = ixSource, !.ixDest = ixDest],
                  CopyDataOn(GetPatch(grid[r], n), PatchData(r, n),
                             ixSource, ixDest, eDataType))

LinearCombineData(r) ==
    /\ DataCallEnabled(r)
    /\ \E n \in 0 .. (GetPatchCount(grid[r]) - 1), eDataType \in SlotDataTypes,
          dCoeff \in CoeffVectors, ixDest \in SlotIndices :
         DataCall(r, n,
                  [NoCall EXCEPT !.name = "LinearCombineData", !.eDataType = eDataType,
                                 !.dCoeff = dCoeff, !.ixDest = ixDest],
                  LinearCombineDataOn(GetPatch(grid[r], n), PatchData(r, n),
                                      dCoeff, ixDest, eDataType))

ZeroData(r) ==
    /\ DataCallEnabled(r)
    /\ \E n \in 0 .. (GetPatchCount(grid[r]) - 1), eDataType \in SlotDataTypes,
          ixData \in SlotIndices :
         DataCall(r, n,
                  [NoCall EXCEPT !.name = "ZeroData", !.eDataType = eDataType,
                                 !.ixDest = ixData],
                  ZeroDataOn(GetPatch(grid[r], n), PatchData(r, n), ixData, eDataType))

AddReferenceState(r) ==
    /\ DataCallEnabled(r)
    /\ \E n \in 0 .. (GetPatchCount(grid[r]) - 1), ix \in SlotIndices :
         DataCall(r, n,
                  [NoCall EXCEPT !.name = "AddReferenceState", !.eDataType = "State",
                                 !.ixDest = ix],
                  AddReferenceStateOn(GetPatch(grid[r], n), PatchData(r, n), ix))

\* The grid the slot operations are called on: the first two panels.
SlotBoxes == SubSeq(GridBoxes(NoCut), 1, 2)

\* Field data that differs from cell to cell, halo included; the tracer
\* arrays are allocated only in a model with tracers.
FilledData(n, box, tracers) ==
    [f \in {f \in Fields : tracers = 0 => f[1] # "Tracers"} |->
        [c \in Cells(box) |-> Token(n, f, c)]]

\* The patches are distributed over size processes and hold data.
DataInitOn(boxes, tracers, size) ==
      \E ready \in {[r \in 0 .. (size - 1) |-> DistributedGrid(boxes, r, size)]} :
        /\ nSize = size
        /\ gridBoxes = boxes
        /\ grid = [r \in 0 .. (size - 1) |-> ready[r].g]
        /\ data = [r \in 0 .. (size - 1) |->
                    [n \in DOMAIN ready[r].d |->
                        FilledData(n, GetPatch(ready[r].g, n).box, tracers)]]
        /\ err = [r \in 0 .. (size - 1) |-> NoError]
        /\ calls = [r \in 0 .. (size - 1) |-> [dist |-> 1, conn |-> 0]]
        /\ connLog = [r \in 0 .. (size - 1) |-> <<>>]
        /\ ExchangeIdle(size)
        /\ status = [vecDataTypes |-> {}, received |-> <<>>]
        /\ cons = [r \in 0 .. (size - 1) |->
                    [phase |-> "idle", sends |-> <<>>,
                     out |-> [ixRecvPatch |-> InvalidIndex, eRecvDataType |-> "None",
                              nRecvCount |-> 0]]]
        /\ rootNet = {}
        /\ recvLog = <<>>
        /\ nTracers = tracers
        /\ DataOpIdle(size)

DataInit ==
    \E tracers \in 0 .. MaxTracers, size \in 1 .. MaxProcs :
        DataInitOn(SlotBoxes, tracers, size)


\* The call has an invalid argument: a slot index outside the slots of the
\* patch, a destination not below the coefficient count, more coefficients
\* than slots, or a data type that is neither State nor Tracers.
InvalidSlotArgument(call, patch) ==
    LET nSlots == IF patch.fContainsData THEN NumSlots ELSE 0
        inRange(ix) == (ix >= 0) /\ (ix < nSlots)
        badType == call.eDataType \notin {"State", "Tracers"}
    IN  CASE call.name = "CopyData" ->
                badType \/ ~inRange(call.ixSource) \/ ~inRange(call.ixDest)
          [] call.name = "LinearCombineData" ->
                \/ badType
                \/ ~inRange(call.ixDest)
                \/ call.ixDest >= Len(call.dCoeff)
                \/ Len(call.dCoeff) > nSlots
          [] call.name = "ZeroData" -> badType \/ ~inRange(call.ixDest)
          [] call.name = "AddReferenceState" -> ~inRange(call.ixDest)
          [] OTHER -> FALSE

CalledPatch(call) == GetPatch(grid[call.r], call.ixPatch)

\* C22: a call of CopyData, ZeroData, LinearCombineData or AddReferenceState
\* with an invalid argument raises an exception on the calling process and
\* leaves every array of every patch as it was.
C22_InvalidArgumentRaises ==
    [][((op' # op) /\ InvalidSlotArgument(op', CalledPatch(op')))
            => (err'[op'.r] # NoError) /\ (data' = data)]_vars

\* After a call that changed the patch, LinearCombineData is called on a
\* patch with data with more coefficients than slots and a valid
\* destination, and raises.
C22_Witness ==
    /\ op.name = "LinearCombineData"
    /\ op.nCalls = 2
    /\ op.eDataType = "State"
    /\ CalledPatch(op).fContainsData
    /\ op.ixDest \in Slots
    /\ Len(op.dCoeff) > NumSlots
    /\ err[op.r] = "Too many elements in coefficient vector."
    /\ data[op.r][op.ixPatch] # FilledData(op.ixPatch, CalledPatch(op).box, nTracers)

(***************************************************************************)
(* GridPatch::Checksum.  The arrays of the model hold one value per        *)
(* horizontal cell, read for every level; component c of the state is on   *)
(* nodes or on interfaces as GetVarLocation says, and is read from the     *)
(* node or from the interface array of the slot.                           *)
(***************************************************************************)
ChecksumTypes == {"Sum", "L1", "L2", "Linf"}

\* Grid::GetVarLocation: the components alternate between nodes and interfaces.
GetVarLocation(c) == IF c % 2 = 0 THEN "Node" ELSE "REdge"

\* m_dataElementArea and m_dataElementAreaREdge: positive, uneven weights.
ElementArea(box, c) == 1 + c[1]

ElementAreaREdge(box, c) == 2 + c[2]

\* The components a checksum is taken of: nodevars and redgevars, each with
\* its array, its number of levels and its weights.
ChecksumVars(eDataType, iDataIndex, tracers) ==
    IF eDataType = "State"
    THEN [c \in 0 .. (NumComponents - 1) |->
            IF GetVarLocation(c) = "Node"
            THEN [array |-> <<"StateNode", iDataIndex>>, levels |-> RElements,
                  redge |-> FALSE]
            ELSE [array |-> <<"StateREdge", iDataIndex>>, levels |-> RElements + 1,
                  redge |-> TRUE]]
    ELSE [c \in 0 .. (tracers - 1) |->
            [array |-> <<"Tracers", iDataIndex>>, levels |-> RElements,
             redge |-> FALSE]]

\* Faulty variant: the loops run over the halo as well.
ChecksumCellsWithHalo(box) == Cells(box)

\* The cells the loops of Checksum run over: i and j from the begin to the
\* end of the interior.
ChecksumCells(box) == {c \in Cells(box) : IsInterior(box, c)}

RECURSIVE SumOf(_, _)
SumOf(w, S) ==
    IF S = {} THEN 0
    ELSE Only({w[c] + SumOf(w, S \ {c}) : c \in {CHOOSE c \in S : TRUE}})

RECURSIVE MaxOf(_, _, _)
MaxOf(w, S, m) ==
    IF S = {} THEN m
    ELSE Only({MaxOf(w, S \ {c}, IF w[c] > m THEN w[c] ELSE m) :
               c \in {CHOOSE c \in S : TRUE}})

\* One component: dChecksum as the loops over k, i and j leave it.
Accumulate(eChecksumType, dChecksum, arr, var, box) ==
    LET area(c) == IF var.redge THEN ElementAreaREdge(box, c) ELSE ElementArea(box, c)
    IN  CASE eChecksumType = "Sum" ->
                dChecksum + var.levels
                    * SumOf([c \in ChecksumCells(box) |-> arr[c] * area(c)],
                            ChecksumCells(box))
          [] eChecksumType = "L1" ->
                dChecksum + var.levels
                    * SumOf([c \in ChecksumCells(box) |-> Abs(arr[c]) * area(c)],
                            ChecksumCells(box))
          [] eChecksumType = "L2" ->
                dChecksum + var.levels
                    * SumOf([c \in ChecksumCells(box) |-> arr[c] * arr[c] * area(c)],
                            ChecksumCells(box))
          [] eChecksumType = "Linf" ->
                MaxOf([c \in ChecksumCells(box) |-> Abs(arr[c])],
                      ChecksumCells(box), dChecksum)

\* GridPatch::Checksum: the outcomes [err, sums], sums[c + 1] being
\* dChecksums[c] at the return.  iDataIndex is not tested: a slot outside
\* the vector is read as SlotReads says.
ChecksumOn(patch, d, tracers, eDataType, dChecksums, iDataIndex, eChecksumType) ==
    LET raise(e) == {[err |-> e, sums |-> dChecksums]}
        ckvars == ChecksumVars(eDataType, iDataIndex, tracers)
        arrays == [k \in 1 .. Cardinality(DOMAIN ckvars) |-> ckvars[k - 1].array]
    IN
    IF ~patch.fContainsData
    THEN raise("Checksum called on uninitialized GridPatch")
    ELSE IF eDataType \notin {"State", "Tracers"}
    THEN raise("Invalid DataType.")
    ELSE IF Len(dChecksums) < Len(arrays)
    THEN raise("Invalid Checksum count")
    ELSE IF eChecksumType \notin ChecksumTypes
    THEN raise("Invalid DataType in Checksum: Expected State or Tracers")
    ELSE UNION { IF rd.fault THEN raise(MemoryFault)
                 ELSE {[err |-> NoError,
                        sums |-> [k \in 1 .. Len(dChecksums) |->
                                    IF k <= Len(arrays)
                                    THEN Accumulate(eChecksumType, dChecksums[k],
                                                    rd.d[arrays[k]], ckvars[k - 1],
                                                    patch.box)
                                    ELSE dChecksums[k]]]} :
                 rd \in SlotReads(d, patch.box, arrays) }

(***************************************************************************)
(* Direct calls of GridPatch::Checksum, Send and Receive on a patch of the *)
(* grid, with data or without.                                             *)
(***************************************************************************)
\* The checksum types, and a value of the enumeration that is none of them.
ChecksumArgs == ChecksumTypes \cup {"None"}

ZeroChecksums(n) == [k \in 1 .. n |-> 0]

PatchChecksum(r) ==
    /\ DataCallEnabled(r)
    /\ \E n \in 0 .. (GetPatchCount(grid[r]) - 1), eDataType \in SlotDataTypes,
          iDataIndex \in Slots, eChecksumType \in ChecksumArgs :
        \E res \in ChecksumOn(GetPatch(grid[r], n), PatchData(r, n), nTracers, eDataType,
                              ZeroChecksums(NumComponents), iDataIndex, eChecksumType) :
         DataCall(r, n,
                  [NoCall EXCEPT !.name = "Checksum", !.eDataType = eDataType,
                                 !.ixSource = iDataIndex],
                  [err |-> res.err, d |-> PatchData(r, n)])

\* The arguments of the direct calls of Send and Receive.
PatchExchangeArgs == {<<"State", 0>>, <<"Tracers", 0>>, <<"Vorticity", 0>>, <<"Topography", 0>>}

\* GridPatch::Send: the arrays are packed for the neighbors and sent.
PatchSend(r) ==
    /\ DataCallEnabled(r)
    /\ \E n \in 0 .. (GetPatchCount(grid[r]) - 1), arg \in PatchExchangeArgs :
        \E patch \in {GetPatch(grid[r], n)} :
         \E e \in {SendError(DataInstances(patch), arg[1], arg[2])} :
          \E rd \in SlotReads(PatchData(r, n), patch.box, SendArrays(arg[1], arg[2])) :
            /\ op' = [NoCall EXCEPT !.name = "Send", !.eDataType = arg[1],
                                    !.ixSource = arg[2], !.r = r, !.ixPatch = n,
                                    !.nCalls = op.nCalls + 1]
            /\ err' = [err EXCEPT ![r] =
                        IF e # NoError THEN e ELSE IF rd.fault THEN MemoryFault ELSE @]
            /\ net' = IF (e # NoError) \/ rd.fault THEN net
                      ELSE net \cup PatchMessages(patch, rd.d, SendArrays(arg[1], arg[2]))
    /\ UNCHANGED <<nSize, gridBoxes, grid, data, calls, connLog, cksum>>
    /\ UNCHANGED <<xarg, xchg, xcount, posted, unpacked, xround>>
    /\ UNCHANGED consolidateVars

\* GridPatch::Receive of a patch for which no receive is posted: WaitReceive
\* returns NULL at once, the loop does not run and Receive returns.
PatchReceive(r) ==
    /\ DataCallEnabled(r)
    /\ posted[r] = {}
    /\ \E n \in 0 .. (GetPatchCount(grid[r]) - 1), arg \in PatchExchangeArgs :
        \E patch \in {GetPatch(grid[r], n)} :
         \E e \in {ReceiveError(DataInstances(patch), arg[1], arg[2])} :
            /\ op' = [NoCall EXCEPT !.name = "Receive", !.eDataType = arg[1],
                                    !.ixSource = arg[2], !.r = r, !.ixPatch = n,
                                    !.nCalls = op.nCalls + 1]
            /\ err' = [err EXCEPT ![r] = e]
    /\ UNCHANGED <<nSize, gridBoxes, grid, data, calls, connLog, cksum>>
    /\ UNCHANGED exchangeVars
    /\ UNCHANGED consolidateVars


\* C23: every data operation called on a patch that holds no data ends the
\* calling process with an error.
C23_StubOperationRaises ==
    [][((op' # op) /\ ~CalledPatch(op').fContainsData) => (err'[op'.r] # NoError)]_vars

\* The operations that test their slot index against the size of the slot
\* vector, and Checksum, which tests m_fContainsData, do raise on a stub.
C23_CheckedOperationsRaise ==
    [][((op' # op) /\ ~CalledPatch(op').fContainsData
            /\ op'.name \notin {"Send", "Receive"}) =>
                (err'[op'.r] \notin {NoError, MemoryFault}) /\ (data' = data)]_vars

(***************************************************************************)
(* Grid::Checksum on rank r: the local checksums of the active patches,    *)
(* then the reduction to the root.                                         *)
(***************************************************************************)
\* The loop over the active patches, from the k-th on: the outcomes
\* [err, sums], sums being dChecksumsLocal.
RECURSIVE ChecksumLocalOn(_, _, _, _, _, _, _, _)
ChecksumLocalOn(g, d, tracers, eDataType, iDataIndex, eChecksumType, sums, k) ==
    IF k > Len(g.vecActiveGridPatches) THEN {[err |-> NoError, sums |-> sums]}
    ELSE UNION { IF res.err # NoError THEN {res}
                 ELSE ChecksumLocalOn(g, d, tracers, eDataType, iDataIndex,
                                      eChecksumType, res.sums, k + 1) :
                 res \in ChecksumOn(GetPatch(g, g.vecActiveGridPatches[k]),
                                    d[g.vecActiveGridPatches[k]], tracers, eDataType,
                                    sums, iDataIndex, eChecksumType) }

\* Every process calls Checksum with the arguments of the processes that
\* are in it already.
ChecksumCallArgs ==
    IF \E q \in Ranks : cksum[q].phase # "idle"
    THEN {<<cksum[q].eDataType, cksum[q].iDataIndex, cksum[q].eChecksumType>> :
            q \in {q \in Ranks : cksum[q].phase # "idle"}}
    ELSE SlotDataTypes \X Slots \X ChecksumArgs

\* Grid::Checksum up to the call of MPI_Reduce.
Checksum(r) ==
    /\ DataCallEnabled(r)
    /\ cksum[r].phase = "idle"
    /\ \E arg \in ChecksumCallArgs :
        \E entered \in {[cksum[r] EXCEPT !.eDataType = arg[1], !.iDataIndex = arg[2],
                                         !.eChecksumType = arg[3]]} :
          /\ op' = [NoCall EXCEPT !.name = "Grid::Checksum", !.eDataType = arg[1],
                                  !.ixSource = arg[2], !.r = r,
                                  !.nCalls = op.nCalls + 1]
          /\ IF arg[1] \notin {"State", "Tracers"}
             THEN /\ err' = [err EXCEPT ![r] = "Invalid DataType"]
                  /\ cksum' = [cksum EXCEPT ![r] = entered]
             ELSE IF (arg[1] = "Tracers") /\ (nTracers = 0)
             THEN /\ cksum' = [cksum EXCEPT ![r] = [entered EXCEPT !.phase = "done"]]
                  /\ UNCHANGED err
             ELSE \E res \in ChecksumLocalOn(grid[r], data[r], nTracers, arg[1], arg[2], arg[3],
                                ZeroChecksums(IF arg[1] = "State" THEN NumComponents
                                              ELSE nTracers), 1) :
                  /\ err' = [err EXCEPT ![r] = res.err]
                  /\ cksum' = [cksum EXCEPT ![r] =
                                [entered EXCEPT !.phase = IF res.err = NoError
                                                          THEN "reduce" ELSE "idle",
                                                !.local = res.sums]]
    /\ UNCHANGED <<nSize, gridBoxes, grid, data, calls, connLog>>
    /\ UNCHANGED exchangeVars
    /\ UNCHANGED consolidateVars

\* sqrt of a sum of squares, rounded down to an integer.
RECURSIVE SqrtBetween(_, _, _)
SqrtBetween(x, lo, hi) ==
    IF hi - lo <= 1 THEN lo
    ELSE Only({ IF mid <= x \div mid THEN SqrtBetween(x, mid, hi)
                ELSE SqrtBetween(x, lo, mid) : mid \in {(lo + hi) \div 2} })

Sqrt(x) == SqrtBetween(x, 0, x + 1)

\* MPI_SUM and MPI_MAX over the contributions of ranks 0 .. q.
RECURSIVE ReduceOver(_, _, _, _)
ReduceOver(nMPIOperator, local, c, q) ==
    IF q < 0 THEN 0
    ELSE Only({ IF nMPIOperator = "MPI_MAX"
                THEN (IF (q > 0) /\ (rest > local[q][c]) THEN rest ELSE local[q][c])
                ELSE rest + local[q][c] :
                rest \in {ReduceOver(nMPIOperator, local, c, q - 1)} })

\* Faulty variant: every process takes the square root of its own sum and
\* the roots are added.
ReducedChecksumsLocalRoot(eChecksumType, local, size) ==
    [c \in DOMAIN local[0] |->
        IF eChecksumType = "L2"
        THEN ReduceOver("MPI_SUM", [q \in DOMAIN local |->
                                        [k \in DOMAIN local[q] |-> Sqrt(local[q][k])]],
                        c, size - 1)
        ELSE ReduceOver(IF eChecksumType = "Linf" THEN "MPI_MAX" ELSE "MPI_SUM",
                        local, c, size - 1)]

\* dChecksums at the root: the reduction, and the square root for L2.
ReducedChecksums(eChecksumType, local, size) ==
    [c \in DOMAIN local[0] |->
        Only({ IF eChecksumType = "L2" THEN Sqrt(v) ELSE v :
               v \in {ReduceOver(IF eChecksumType = "Linf" THEN "MPI_MAX" ELSE "MPI_SUM",
                                 local, c, size - 1)} })]

\* MPI_Reduce: it completes when every process has called it; the root
\* has the result.
ChecksumReduce ==
    /\ \A r \in Ranks : (err[r] = NoError) /\ (cksum[r].phase = "reduce")
    /\ cksum' = [r \in Ranks |->
                    [cksum[r] EXCEPT
                        !.phase = "done",
                        !.out = IF r = 0
                                THEN ReducedChecksums(cksum[0].eChecksumType,
                                        [q \in Ranks |-> cksum[q].local], nSize)
                                ELSE @]]
    /\ UNCHANGED op
    /\ UNCHANGED gridVars
    /\ UNCHANGED exchangeVars
    /\ UNCHANGED consolidateVars

DataNext ==
    \/ ChecksumReduce
    \/ \E r \in Ranks :
        \/ CopyData(r)
        \/ LinearCombineData(r)
        \/ ZeroData(r)
        \/ AddReferenceState(r)
        \/ PatchChecksum(r)
        \/ PatchSend(r)
        \/ PatchReceive(r)
        \/ Checksum(r)

SpecData == DataInit /\ [][DataNext]_vars

\* A call of Grid::Checksum, ZeroData or LinearCombineData for Tracers in
\* a model without tracers.
ZeroTracersCall(call) ==
    /\ nTracers = 0
    /\ call.eDataType = "Tracers"
    /\ call.name \in {"Grid::Checksum", "ZeroData", "LinearCombineData"}

\* C24 as stated: in a model without tracers, Grid::Checksum, ZeroData and
\* LinearCombineData called for Tracers end with an error.
C24_ZeroTracersRaise ==
    [][((op' # op) /\ ZeroTracersCall(op')) => (err'[op'.r] # NoError)]_vars

\* C24, amended: in a model without tracers, Grid::Checksum called for
\* Tracers returns without an error and without a checksum, and ZeroData
\* and LinearCombineData called for Tracers with valid arguments return
\* without an error; no array of any patch is changed.
C24_ZeroTracersNoOp ==
    [][((op' # op) /\ ZeroTracersCall(op')
            /\ ~InvalidSlotArgument(op', CalledPatch(op'))) =>
                /\ err'[op'.r] = NoError
                /\ data' = data
                /\ (op'.name = "Grid::Checksum") =>
                        /\ cksum'[op'.r].phase = "done"
                        /\ cksum'[op'.r].out = <<>>
                        /\ cksum'[op'.r].local = <<>>]_vars

\* In a model without tracers a process has returned from Grid::Checksum
\* for Tracers and then from ZeroData or LinearCombineData for Tracers,
\* called with valid arguments on a patch with data.
C24_Witness ==
    /\ ZeroTracersCall(op)
    /\ op.name \in {"ZeroData", "LinearCombineData"}
    /\ CalledPatch(op).fContainsData
    /\ ~InvalidSlotArgument(op, CalledPatch(op))
    /\ err[op.r] = NoError
    /\ cksum[op.r].phase = "done"
    /\ cksum[op.r].eDataType = "Tracers"

(***************************************************************************)
(* Grid::Checksum called by every process, on one patch per panel or on    *)
(* the first two panels, over one or more processes, with field data of    *)
(* both signs that differs from cell to cell, halo included.               *)
(***************************************************************************)
SignedData(n, box, tracers, signed) ==
    [f \in {f \in Fields : tracers = 0 => f[1] # "Tracers"} |->
        [c \in Cells(box) |->
            IF signed /\ ((c[1] + c[2] + n) % 2 = 1)
            THEN 0 - Token(n, f, c) ELSE Token(n, f, c)]]

ChecksumGrids == {SlotBoxes, GridBoxes(NoCut)}

ChecksumInit ==
    \E boxes \in ChecksumGrids, tracers \in 0 .. MaxTracers,
       size \in 1 .. MaxProcs, signed \in BOOLEAN :
      \E ready \in {[r \in 0 .. (size - 1) |-> DistributedGrid(boxes, r, size)]} :
        /\ nSize = size
        /\ gridBoxes = boxes
        /\ grid = [r \in 0 .. (size - 1) |-> ready[r].g]
        /\ data = [r \in 0 .. (size - 1) |->
                    [n \in DOMAIN ready[r].d |->
                        SignedData(n, GetPatch(ready[r].g, n).box, tracers, signed)]]
        /\ err = [r \in 0 .. (size - 1) |-> NoError]
        /\ calls = [r \in 0 .. (size - 1) |-> [dist |-> 1, conn |-> 0]]
        /\ connLog = [r \in 0 .. (size - 1) |-> <<>>]
        /\ ExchangeIdle(size)
        /\ status = [vecDataTypes |-> {}, received |-> <<>>]
        /\ cons = [r \in 0 .. (size - 1) |->
                    [phase |-> "idle", sends |-> <<>>,
                     out |-> [ixRecvPatch |-> InvalidIndex, eRecvDataType |-> "None",
                              nRecvCount |-> 0]]]
        /\ rootNet = {}
        /\ recvLog = <<>>
        /\ nTracers = tracers
        /\ DataOpIdle(size)

ChecksumNext ==
    \/ ChecksumReduce
    \/ \E r \in Ranks : Checksum(r)

SpecChecksum == ChecksumInit /\ [][ChecksumNext]_vars

\* The checksum of component c taken on one process over the union of the
\* interiors of all patches: every interior cell of every patch counts
\* once, with the value its owner holds.
InteriorUnion ==
    {<<n, cell>> \in (0 .. (Len(gridBoxes) - 1)) \X Cells(gridBoxes[1]) :
        IsInterior(gridBoxes[n + 1], cell)}

OwnerData(n) == data[CHOOSE r \in Ranks : n \in DOMAIN data[r]][n]

WholeChecksum(eDataType, iDataIndex, eChecksumType, c) ==
    LET onREdge == (eDataType = "State") /\ (c % 2 = 1)
        f == IF eDataType = "Tracers" THEN <<"Tracers", iDataIndex>>
             ELSE IF onREdge THEN <<"StateREdge", iDataIndex>>
             ELSE <<"StateNode", iDataIndex>>
        levels == IF onREdge THEN RElements + 1 ELSE RElements
        v(x) == OwnerData(x[1])[f][x[2]]
        area(x) == IF onREdge THEN 2 + x[2][2] ELSE 1 + x[2][1]
    IN  CASE eChecksumType = "Sum" ->
                levels * SumOf([x \in InteriorUnion |-> v(x) * area(x)], InteriorUnion)
          [] eChecksumType = "L1" ->
                levels * SumOf([x \in InteriorUnion |-> Abs(v(x)) * area(x)], InteriorUnion)
          [] eChecksumType = "L2" ->
                Sqrt(levels * SumOf([x \in InteriorUnion |-> v(x) * v(x) * area(x)],
                                    InteriorUnion))
          [] eChecksumType = "Linf" ->
                MaxOf([x \in InteriorUnion |-> Abs(v(x))], InteriorUnion, 0)

\* C25: the checksums the root has after the reduction are, for every
\* checksum type and component, those of the union of the patch interiors
\* taken on one process.
C25_ChecksumEquivalence ==
    (cksum[0].phase = "done" /\ cksum[0].out # <<>>) =>
        \A k \in DOMAIN cksum[0].out :
            cksum[0].out[k] = WholeChecksum(cksum[0].eDataType, cksum[0].iDataIndex,
                                            cksum[0].eChecksumType, k - 1)

\* The root has the L2 checksum of the state of six patches held by two
\* processes, whose data has both signs.
C25_Witness ==
    /\ nSize = 2
    /\ Len(gridBoxes) = 6
    /\ cksum[0].phase = "done"
    /\ cksum[0].eDataType = "State"
    /\ cksum[0].eChecksumType = "L2"
    /\ Len(cksum[0].out) = NumComponents
    /\ cksum[0].out[1] > 0
    /\ \E n \in DOMAIN data[1], c \in Cells(gridBoxes[1]) :
            data[1][n][<<"StateNode", cksum[0].iDataIndex>>][c] < 0

(***************************************************************************)
(* The grid built patch by patch: every process adds the boxes of          *)
(* gridBoxes in order with Grid::AddPatch, then calls DistributePatches    *)
(* and InitializeConnectivity.                                             *)
(***************************************************************************)
BuildInit ==
    \E boxes \in FullGrids \cup PartialGrids, size \in 1 .. MaxProcs :
        /\ nSize = size
        /\ gridBoxes = boxes
        /\ grid = [r \in 0 .. (size - 1) |-> EmptyGrid]
        /\ data = [r \in 0 .. (size - 1) |-> <<>>]
        /\ err = [r \in 0 .. (size - 1) |-> NoError]
        /\ calls = [r \in 0 .. (size - 1) |-> [dist |-> 0, conn |-> 0]]
        /\ connLog = [r \in 0 .. (size - 1) |-> <<>>]
        /\ ExchangeIdle(size)
        /\ ConsolidateIdle(size)
        /\ DataOpIdle(size)

Built(r) == GetPatchCount(grid[r]) = Len(gridBoxes)

\* Grid::AddPatch of the next box.
AddPatchCall(r) ==
    /\ err[r] = NoError
    /\ ~Built(r)
    /\ grid' = [grid EXCEPT ![r] = AddPatch(@, gridBoxes[GetPatchCount(@) + 1])]
    /\ UNCHANGED <<nSize, gridBoxes, data, err, calls, connLog>>
    /\ UNCHANGED exchangeVars
    /\ UNCHANGED consolidateVars
    /\ UNCHANGED dataOpVars

BuildNext ==
    \E r \in Ranks :
        \/ AddPatchCall(r)
        \/ Built(r) /\ DistributePatches(r)
        \/ Built(r) /\ InitializeConnectivity(r)

SpecBuild == BuildInit /\ [][BuildNext]_vars

\* C26: the patch at position n of a grid has patch index n, after every
\* AddPatch and after every later operation.
C26_IndexIsPosition ==
    \A r \in Ranks : \A n \in 0 .. (GetPatchCount(grid[r]) - 1) :
        GetPatch(grid[r], n).ixPatch = n

\* No step changes the index or the box of a patch, or removes a patch.
C26_IndexImmutable ==
    [][\A r \in Ranks : \A n \in 0 .. (GetPatchCount(grid[r]) - 1) :
            /\ n < GetPatchCount(grid'[r])
            /\ GetPatch(grid'[r], n).ixPatch = GetPatch(grid[r], n).ixPatch
            /\ GetPatch(grid'[r], n).box = GetPatch(grid[r], n).box]_vars

\* A grid of seven patches has been built, distributed over two processes
\* and connected.
C26_Witness ==
    /\ nSize = 2
    /\ \E r \in Ranks :
        /\ GetPatchCount(grid[r]) = 7
        /\ calls[r].dist >= 1
        /\ calls[r].conn = 1
        /\ err[r] = NoError
        /\ {GetPatch(grid[r], n).ixPatch : n \in 0 .. 6} = 0 .. 6

(***************************************************************************)
(* The scenario of one patch per panel on four processes: a consolidation  *)
(* round for the state.                                                    *)
(***************************************************************************)
ScenarioProcs == 4

ScenarioInit ==
    \E tracers \in {0, MaxTracers} :
        ConsolidateInitOn(GridBoxes(NoCut), {"State"}, tracers, ScenarioProcs, {})

SpecScenario == ScenarioInit /\ [][ConsolidateNext]_vars

ScenarioPairs == (0 .. 5) \X {"State"}

\* The messages of the pair x: in flight to the root, or received.
InFlight(x) == {m \in rootNet : <<m.ixPatch, m.eDataType>> = x}

\* C27: with six patches on four processes and a round for the state, the
\* pairs of the status are the six (patch, State) pairs; the owner of each
\* patch, the root included, sends one message for it; the root receives
\* each pair at most once; Done() holds exactly when it has received all
\* six once, which is the case as soon as every process has sent and no
\* message is in flight, and when the root leaves its loop; no receive of
\* the loop raises an error.
C27_SixPairsThenDone ==
    /\ DOMAIN status.received = ScenarioPairs
    /\ \A x \in ScenarioPairs :
        /\ recvLog[x] <= 1
        /\ Cardinality(InFlight(x)) + recvLog[x] =
                (IF cons[x[1] % ScenarioProcs].phase = "idle" THEN 0 ELSE 1)
        /\ status.received[x] <=> (recvLog[x] = 1)
    /\ Done(status) <=> (\A x \in ScenarioPairs : recvLog[x] = 1)
    /\ (cons[0].phase = "done") => Done(status)
    /\ (cons[0].phase # "done") => (err[0] = NoError)
    /\ err[0] \in {NoError, CompletedError}

\* The root has left its loop after six receives, those of its own patches
\* 0 and 4 among them; the patches are owned by processes 0, 1, 2, 3, 0, 1.
C27_Witness ==
    /\ nSize = 4
    /\ cons[0].phase = "done"
    /\ Done(status)
    /\ \A x \in ScenarioPairs : recvLog[x] = 1
    /\ [n \in 0 .. 5 |-> GetPatch(grid[0], n).iProcessor] =
            [n \in 0 .. 5 |-> IF n < 4 THEN n ELSE n - 4]
    /\ ActivePatches(grid[0]) = {0, 4}
    /\ rootNet = {}


(***************************************************************************)
(* The connectivity of the unsplit cubed sphere: one patch per panel, four *)
(* processes, halo width 1 .. MaxHaloElements.  The processes distribute   *)
(* the patches and build the connectivity of their active patches.         *)
(***************************************************************************)
ScenarioConnectInit ==
    \E h \in 1 .. MaxHaloElements :
        GridInit(WithHalo(GridBoxes(NoCut), h), ScenarioProcs)

ScenarioConnectNext ==
    \E r \in Ranks :
        \/ DistributePatches(r)
        \/ InitializeConnectivity(r)

SpecScenarioConnect == ScenarioConnectInit /\ [][ScenarioConnectNext]_vars

\* The relations of a patch along the edge dir that cover the whole edge.
WholeEdgeRelations(patch, dir) ==
    {k \in EdgeRelations(patch, dir) :
        patch.connect[k].ixFirst .. (patch.connect[k].ixSecond - 1)
            = EdgeInterior(patch.box, dir)}

\* Every patch walked by InitializeConnectivity has exactly one relation
\* per edge, covering the whole edge, and no walk was ended by the
\* interior test of a diagonal relation.
FourWholeEdges ==
    \A r \in Ranks :
        /\ err[r] # InsufficientError
        /\ \A n \in WalkedPatches(r), dir \in EdgeDirections :
            \E patch \in {GetPatch(grid[r], n)} :
                /\ Cardinality(EdgeRelations(patch, dir)) = 1
                /\ WholeEdgeRelations(patch, dir) = EdgeRelations(patch, dir)

ExchangeStep(r) ==
    /\ r \in Ranks
    /\ \/ PrepareExchange(r)
       \/ Send(r)
       \/ Receive(r)

ExchangeFairness ==
    /\ WF_vars(Barrier)
    /\ \A r \in 0 .. (MaxProcs - 1) : WF_vars(ExchangeStep(r))

FairSpecExchange == SpecExchange /\ ExchangeFairness

\* Every process has called Exchange.
AllCalledExchange == \A r \in Ranks : xchg[r].phase # "idle"

\* The data type is one that Send and Receive accept.
ExchangedType ==
    xarg.eDataType \in {"State", "Tracers", "Vorticity", "Divergence",
                        "Temperature", "TopographyDeriv"}

\* Process r has left Exchange: by its return after the last Receive, or,
\* for a data type that Send rejects, by the exception of its first Send.
LeftExchange(r) ==
    IF ExchangedType
    THEN (xchg[r].phase = "done") /\ (err[r] = NoError)
    ELSE err[r] = "Invalid DataType"

\* C29: once every process has called Exchange for the round, on a grid
\* whose connectivity every process has built, every process eventually
\* returns from Exchange, whatever the number of patches per process and
\* the interleaving of the processes.
C29_ExchangeTerminates ==
    AllCalledExchange ~> (\A r \in Ranks : LeftExchange(r))

\* Two processes with several patches each have returned from Exchange
\* after waiting for their receives, and no message is left in flight.
C29_Witness ==
    /\ nSize = 2
    /\ ExchangedType
    /\ \A r \in Ranks :
        /\ ActiveCount(r) > 1
        /\ xchg[r].phase = "done"
        /\ err[r] = NoError
        /\ xcount[r].waited > ActiveCount(r)
        /\ posted[r] = {}
    /\ net = {}



(***************************************************************************)
(* Successive Exchange rounds.  A process that has returned from           *)
(* Grid::Exchange calls it again, up to MaxRounds calls; xround.of[r] is   *)
(* the number of the call process r is in or has returned from, and        *)
(* xround.tag the call that sent each message in flight.                   *)
(***************************************************************************)
MaxRounds == 2

\* Faulty variant: the next call does not wait in the barrier.
ReenterExchangePastBarrier(r) ==
    /\ err[r] = NoError
    /\ xchg[r].phase = "done"
    /\ xround.of[r] < MaxRounds
    /\ xround' = [xround EXCEPT !.of[r] = @ + 1]
    /\ xchg' = [xchg EXCEPT ![r] = IF ActiveCount(r) = 0 THEN [phase |-> "done", n |-> 0]
                        ELSE [phase |-> NextPhase("barrier"), n |-> 0]]
    /\ xcount' = [xcount EXCEPT ![r] =
                    [barrier |-> FALSE, prepared |-> 0, sent |-> 0, waited |-> 0]]
    /\ unpacked' = [unpacked EXCEPT ![r] = <<>>]
    /\ UNCHANGED <<xarg, posted, net>>
    /\ UNCHANGED gridVars
    /\ UNCHANGED consolidateVars
    /\ UNCHANGED dataOpVars

\* The next call of Grid::Exchange by a process that has returned from the
\* one before.
ReenterExchange(r) ==
    /\ err[r] = NoError
    /\ xchg[r].phase = "done"
    /\ xround.of[r] < MaxRounds
    /\ xround' = [xround EXCEPT !.of[r] = @ + 1]
    /\ xchg' = [xchg EXCEPT ![r] = [phase |-> NextPhase("idle"), n |-> 0]]
    /\ xcount' = [xcount EXCEPT ![r] =
                    [barrier |-> FALSE, prepared |-> 0, sent |-> 0, waited |-> 0]]
    /\ unpacked' = [unpacked EXCEPT ![r] = <<>>]
    /\ UNCHANGED <<xarg, posted, net>>
    /\ UNCHANGED gridVars
    /\ UNCHANGED consolidateVars
    /\ UNCHANGED dataOpVars

\* The arguments of the rounds: a slot of the state and one array.
RoundArgs == {<<"State", 0>>, <<"Vorticity", 0>>}

RoundsInit ==
    \E boxes \in ExchangeGrids, arg \in RoundArgs :
     \E size \in ExchangeSizes(boxes) :
      \E ready \in {[r \in 0 .. (size - 1) |-> ReadyGrid(boxes, r, size)]} :
        ExchangeInitOn(boxes, arg, size, ready, 0 .. (size - 1))

RoundsNext ==
    \/ Barrier
    \/ \E r \in Ranks :
        \/ EnterExchange(r)
        \/ ReenterExchange(r)
        \/ PrepareExchange(r)
        \/ Send(r)
        \/ Receive(r)

SpecRounds == RoundsInit /\ [][RoundsNext]_vars

\* The rounds of which process q has completed every receive.
RoundsCompleted(q) ==
    IF xchg[q].phase = "done" THEN xround.of[q] ELSE xround.of[q] - 1

\* Process r has issued a send in the round it is in.
HasSent(r) == xcount[r].sent > 0

\* The process that holds the patch a message is addressed to.
Receiver(msg) == CHOOSE r \in Ranks : msg.dst \in ActivePatches(grid[r])

\* No process has issued a send of a round before every process has
\* completed the receives of the round before it.
NoSendBeforeReceives ==
    \A r \in Ranks, q \in Ranks :
        HasSent(r) => (RoundsCompleted(q) >= xround.of[r] - 1)

\* A message that a step takes out of the network was sent in the round
\* its receiver is in.
ReceivedInItsRound ==
    \A msg \in net \ net' : xround.tag[msg] = xround.of[Receiver(msg)]

\* C30: across successive Exchange rounds no process issues a send of
\* round k+1 before every process has completed all of its receives of
\* round k, and every message received in round k was sent in round k.
C30_RoundsDoNotOverlap ==
    /\ []NoSendBeforeReceives
    /\ [][ReceivedInItsRound]_vars

\* Two processes are in their second round: one has sent and is receiving
\* a message of that round while the other has not yet sent all of its
\* messages.
C30_Witness ==
    /\ nSize = 2
    /\ \A r \in Ranks : xround.of[r] = 2
    /\ \E r \in Ranks, q \in Ranks :
        /\ xchg[r].phase = "receive"
        /\ xcount[r].waited > 0
        /\ xchg[q].phase = "send"
        /\ \E msg \in net : xround.tag[msg] = 2

(***************************************************************************)
(* Exchange rounds and a consolidation round in sequence.  Every process   *)
(* runs the same program: Grid::Exchange, then the consolidation round     *)
(* (ConsolidateDataToRoot, and on the root the loop of                     *)
(* ConsolidateDataAtRoot until the status is done), then Grid::Exchange    *)
(* again.  Both kinds of message travel on MPI_COMM_WORLD.                 *)
(***************************************************************************)
MixedInit ==
    \E size \in 1 .. MaxProcs :
     \E boxes \in {GridBoxes(NoCut)} :
      \E ready \in {[r \in 0 .. (size - 1) |-> ReadyGrid(boxes, r, size)]} :
        /\ \A r \in 0 .. (size - 1) : ready[r].err = NoError
        /\ nSize = size
        /\ gridBoxes = boxes
        /\ grid = [r \in 0 .. (size - 1) |-> ready[r].g]
        /\ data = [r \in 0 .. (size - 1) |->
                    [n \in DOMAIN ready[r].d |->
                        InteriorPattern(n, GetPatch(ready[r].g, n).box)]]
        /\ err = [r \in 0 .. (size - 1) |-> NoError]
        /\ calls = [r \in 0 .. (size - 1) |-> [dist |-> 1, conn |-> 1]]
        /\ connLog = [r \in 0 .. (size - 1) |-> ready[r].walked]
        /\ xarg = [eDataType |-> "State", iDataIndex |-> 0]
        /\ xchg = [r \in 0 .. (size - 1) |-> [phase |-> "idle", n |-> 0]]
        /\ xcount = [r \in 0 .. (size - 1) |->
                        [barrier |-> FALSE, prepared |-> 0, sent |-> 0, waited |-> 0]]
        /\ posted = [r \in 0 .. (size - 1) |-> {}]
        /\ net = {}
        /\ unpacked = [r \in 0 .. (size - 1) |-> <<>>]
        /\ xround = FirstRound(size)
        /\ status = NewConsolidationStatus(ready[0].g, {"State"})
        /\ cons = [r \in 0 .. (size - 1) |->
                    [phase |-> "idle", sends |-> <<>>, out |-> NoOutput]]
        /\ rootNet = {}
        /\ recvLog = [x \in (0 .. (Len(boxes) - 1)) \X {"State"} |-> 0]
        /\ nTracers = MaxTracers
        /\ DataOpIdle(size)

MixedNext ==
    \/ Barrier
    \/ \E r \in Ranks :
        \/ EnterExchange(r)
        \/ PrepareExchange(r)
        \/ Send(r)
        \/ Receive(r)
        \/ (xchg[r].phase = "done") /\ ConsolidateDataToRoot(r)
        \/ (r = 0) /\ (cons[r].phase = "loop") /\ ConsolidateDataAtRoot(r)
        \/ RootLoopExit(r)
        \/ (cons[r].phase = "done") /\ ReenterExchange(r)

SpecMixed == MixedInit /\ [][MixedNext]_vars

\* The halo messages in flight to a patch held by the root.
HaloToRoot == {msg \in net : msg.dst \in ActivePatches(grid[0])}

\* The root has sent its own patches and is calling ConsolidateDataAtRoot
\* until the status is done.
RootConsolidating == (err[0] = NoError) /\ (cons[0].phase = "loop")

\* C31: when every process executes the same sequence of Exchange rounds
\* and consolidation rounds, no halo-exchange message is in flight to the
\* root while the root is in its consolidation loop, so its wildcard
\* receive only ever receives consolidation messages.
C31_NoHaloAtRootLoop == RootConsolidating => (HaloToRoot = {})

\* The root is in its consolidation loop with a consolidation message in
\* flight, while the other process has finished its consolidation sends and
\* waits in the barrier of the next Exchange round.
C31_Witness ==
    /\ nSize = 2
    /\ RootConsolidating
    /\ rootNet # {}
    /\ \E x \in DOMAIN recvLog : recvLog[x] = 1
    /\ xround.of[1] = 2
    /\ xchg[1].phase = "barrier"
    /\ \A r \in Ranks : err[r] = NoError

(***************************************************************************)
(* The storage of one patch: GridPatch::InitializeDataLocal,               *)
(* InitializeDataRemote and DeinitializeData called on the patches of a    *)
(* grid that has not been distributed.  An array is named by the member    *)
(* that holds it and, for the state and tracer vectors, by its slot.       *)
(***************************************************************************)
\* The arrays InitializeDataLocal allocates with Allocate.
AllocatedArrays ==
    {"Jacobian2D", "ContraMetric2DA", "ContraMetric2DB", "CovMetric2DA",
     "CovMetric2DB", "Jacobian", "JacobianREdge", "ContraMetricA",
     "ContraMetricB", "ContraMetricXi", "CovMetricA", "CovMetricB",
     "CovMetricXi", "ContraMetricAREdge", "ContraMetricBREdge",
     "ContraMetricXiREdge", "DerivRNode", "DerivRREdge", "ElementArea",
     "ElementAreaREdge", "Topography", "Lon", "Lat", "CoriolisF", "ZLevels",
     "ZInterfaces"} \X {0}

\* The arrays InitializeDataLocal sets up with Initialize; the tracer
\* arrays only in a model with tracers.
InitializedArrays(tracers) ==
    ({"TopographyDeriv", "RefStateNode", "RefStateREdge", "Pressure",
      "DxPressure", "Vorticity", "Divergence", "Temperature",
      "RayleighStrengthNode", "RayleighStrengthREdge"} \X {0})
    \cup ({"StateNode", "StateREdge"} \X Slots)
    \cup (IF tracers # 0 THEN {"Tracers"} \X Slots ELSE {})

\* The arrays DeinitializeData releases, with Detach or Deinitialize.
DeinitializedArrays ==
    ({"Jacobian2D", "ContraMetric2DA", "ContraMetric2DB", "CovMetric2DA",
      "CovMetric2DB", "Jacobian", "JacobianREdge", "ContraMetricA",
      "ContraMetricB", "ContraMetricXi", "CovMetricA", "CovMetricB",
      "CovMetricXi", "ContraMetricXiREdge", "DerivRNode", "ElementArea",
      "ElementAreaREdge", "Topography", "TopographyDeriv", "Lon", "Lat",
      "ZLevels", "ZInterfaces", "Pressure", "DxPressure", "Vorticity",
      "Divergence", "Temperature", "RayleighStrengthNode",
      "RayleighStrengthREdge"} \X {0})
    \cup ({"StateNode", "StateREdge", "Tracers"} \X Slots)

InitializedError == "Attempting to initialize a previously initialized GridPatch."

StubError == "Attempting to deinitialize a stub GridPatch."

\* Faulty variant: a patch that holds data is initialized again.
InitializeDataLocalOnUnchecked(patch, d, r, tracers) ==
    [err |-> NoError,
     patch |-> [patch EXCEPT !.fContainsData = TRUE, !.iProcessor = r],
     d |-> [a \in AllocatedArrays \cup InitializedArrays(tracers) |->
                [c \in Cells(patch.box) |-> 0]]]

\* GridPatch::InitializeDataLocal on process r: [err, patch, d], d being
\* the arrays the patch holds.
InitializeDataLocalOn(patch, d, r, tracers) ==
    IF patch.fContainsData
    THEN [err |-> InitializedError, patch |-> patch, d |-> d]
    ELSE [err |-> NoError,
          patch |-> [patch EXCEPT !.fContainsData = TRUE, !.iProcessor = r],
          d |-> [a \in AllocatedArrays \cup InitializedArrays(tracers) |->
                    [c \in Cells(patch.box) |-> 0]]]

\* GridPatch::DeinitializeData
DeinitializeDataOn(patch, d) ==
    IF ~patch.fContainsData
    THEN [err |-> StubError, patch |-> patch, d |-> d]
    ELSE [err |-> NoError,
          patch |-> [patch EXCEPT !.fContainsData = FALSE],
          d |-> [a \in (DOMAIN d) \ DeinitializedArrays |-> d[a]]]

\* GridPatch::InitializeDataRemote
InitializeDataRemoteOn(patch, d, iProcessor) ==
    Only({[res EXCEPT !.patch.iProcessor = iProcessor] :
            res \in {IF patch.fContainsData THEN DeinitializeDataOn(patch, d)
                     ELSE [err |-> NoError, patch |-> patch, d |-> d]}})

MaxPatchCalls == 3

\* The call is made on patch n of process r and recorded; an exception
\* ends the process.
StorageCall(r, n, name, res) ==
    /\ op' = [NoCall EXCEPT !.name = name, !.r = r, !.ixPatch = n,
                            !.nCalls = op.nCalls + 1]
    /\ err' = [err EXCEPT ![r] = res.err]
    /\ grid' = [grid EXCEPT ![r].vecGridPatches[n + 1] = res.patch]
    /\ data' = [data EXCEPT ![r] =
                    [m \in (DOMAIN @) \cup {n} |-> IF m = n THEN res.d ELSE @[m]]]
    /\ UNCHANGED <<nSize, gridBoxes, calls, connLog, cksum>>
    /\ UNCHANGED exchangeVars
    /\ UNCHANGED consolidateVars

StorageCallEnabled(r) == (err[r] = NoError) /\ (op.nCalls < MaxPatchCalls)

InitializeDataLocal(r) ==
    /\ StorageCallEnabled(r)
    /\ \E n \in 0 .. (GetPatchCount(grid[r]) - 1) :
         StorageCall(r, n, "InitializeDataLocal",
                     InitializeDataLocalOn(GetPatch(grid[r], n), PatchData(r, n),
                                           r, nTracers))

InitializeDataRemote(r) ==
    /\ StorageCallEnabled(r)
    /\ \E n \in 0 .. (GetPatchCount(grid[r]) - 1), iProcessor \in Ranks :
         StorageCall(r, n, "InitializeDataRemote",
                     InitializeDataRemoteOn(GetPatch(grid[r], n), PatchData(r, n),
                                            iProcessor))

DeinitializeData(r) ==
    /\ StorageCallEnabled(r)
    /\ \E n \in 0 .. (GetPatchCount(grid[r]) - 1) :
         StorageCall(r, n, "DeinitializeData",
                     DeinitializeDataOn(GetPatch(grid[r], n), PatchData(r, n)))

StorageInit ==
    \E tracers \in 0 .. MaxTracers, size \in 1 .. MaxProcs :
        /\ nSize = size
        /\ gridBoxes = SlotBoxes
        /\ grid = [r \in 0 .. (size - 1) |-> AddPatches(EmptyGrid, SlotBoxes)]
        /\ data = [r \in 0 .. (size - 1) |-> <<>>]
        /\ err = [r \in 0 .. (size - 1) |-> NoError]
        /\ calls = [r \in 0 .. (size - 1) |-> [dist |-> 0, conn |-> 0]]
        /\ connLog = [r \in 0 .. (size - 1) |-> <<>>]
        /\ ExchangeIdle(size)
        /\ status = [vecDataTypes |-> {}, received |-> <<>>]
        /\ cons = [r \in 0 .. (size - 1) |->
                    [phase |-> "idle", sends |-> <<>>, out |-> NoOutput]]
        /\ rootNet = {}
        /\ recvLog = <<>>
        /\ nTracers = tracers
        /\ DataOpIdle(size)

StorageNext ==
    \E r \in Ranks :
        \/ InitializeDataLocal(r)
        \/ InitializeDataRemote(r)
        \/ DeinitializeData(r)

SpecStorage == StorageInit /\ [][StorageNext]_vars

\* The arrays patch n of process r holds.
HeldArrays(r, n) == DOMAIN PatchData(r, n)

\* C32: after InitializeDataRemote or DeinitializeData is applied to a
\* patch that holds data, the patch is a geometry-only stub: its
\* contains-data flag is false and every array that InitializeDataLocal
\* allocated has been released.  (A patch that never held data holds no
\* array, so the statement is that no patch without the flag holds one.)
C32_StubHoldsNoArray ==
    \A r \in Ranks : \A n \in 0 .. (GetPatchCount(grid[r]) - 1) :
        /\ (op.name \in {"InitializeDataRemote", "DeinitializeData"}
                /\ op.r = r /\ op.ixPatch = n /\ err[r] = NoError)
            => ~GetPatch(grid[r], n).fContainsData
        /\ (~GetPatch(grid[r], n).fContainsData) => (HeldArrays(r, n) = {})

\* What the code does: the flag is false afterwards, the arrays named in
\* DeinitializeData are released, and six arrays stay allocated.
C32_ListedArraysReleased ==
    \A r \in Ranks : \A n \in 0 .. (GetPatchCount(grid[r]) - 1) :
        /\ (op.name \in {"InitializeDataRemote", "DeinitializeData"}
                /\ op.r = r /\ op.ixPatch = n /\ err[r] = NoError)
            => ~GetPatch(grid[r], n).fContainsData
        /\ (~GetPatch(grid[r], n).fContainsData) =>
                HeldArrays(r, n) \in
                    {{}, {"ContraMetricAREdge", "ContraMetricBREdge", "DerivRREdge",
                          "CoriolisF", "RefStateNode", "RefStateREdge"} \X {0}}

(***************************************************************************)
(* The cells an Exchange round writes.                                     *)
(***************************************************************************)
\* The step leaves every interior cell of every array of every patch of
\* every process as it was.
InteriorUnchanged ==
    (data' # data) =>
        \A r \in Ranks : \A n \in DOMAIN data[r] :
            /\ n \in DOMAIN data'[r]
            /\ (data'[r][n] # data[r][n]) =>
                \A f \in DOMAIN data[r][n] :
                    /\ f \in DOMAIN data'[r][n]
                    /\ (data'[r][n][f] # data[r][n][f]) =>
                        \A c \in Cells(GetPatch(grid[r], n).box) :
                            IsInterior(GetPatch(grid[r], n).box, c)
                                => (data'[r][n][f][c] = data[r][n][f][c])

\* The step is a Send of some process.
IsSendStep == \E r \in Ranks : xcount'[r].sent # xcount[r].sent

\* C33: an Exchange round never changes the interior cells of any patch
\* of any process: Send changes no cell at all and Receive writes only
\* into the halo region of the receiving patch.
C33_InteriorUntouched ==
    [][InteriorUnchanged /\ (IsSendStep => (data' = data))]_vars

\* Every process has returned from Exchange and a halo cell of a patch
\* holds a value received from a neighbor.
C33_Witness ==
    /\ nSize = 2
    /\ \A r \in Ranks : xchg[r].phase = "done" /\ err[r] = NoError
    /\ \E r \in Ranks : \E n \in DOMAIN data[r] :
        \E c \in Cells(GetPatch(grid[r], n).box) :
            /\ ~IsInterior(GetPatch(grid[r], n).box, c)
            /\ data[r][n][<<"StateNode", xarg.iDataIndex>>][c] # 0

(***************************************************************************)
(* The patches InitializeConnectivity changes.                             *)
(***************************************************************************)
\* The step is a call of InitializeConnectivity by process r.
IsConnectStep(r) == calls'[r].conn # calls[r].conn

\* C34: InitializeConnectivity adds neighbor relations only to patches
\* that are active on the calling process: the connectivity of every stub
\* patch, and the grid of every other process, is left unchanged, so a call
\* made before DistributePatches adds no relation at all and raises no
\* error.
C34_OnlyActivePatchesConnected ==
    [][\A r \in Ranks :
        IsConnectStep(r) =>
            /\ \A q \in Ranks \ {r} : grid'[q] = grid[q]
            /\ \A n \in 0 .. (GetPatchCount(grid[r]) - 1) :
                (n \notin ActivePatches(grid[r]))
                    => (GetPatch(grid'[r], n) = GetPatch(grid[r], n))
            /\ (calls[r].dist = 0) =>
                    /\ grid'[r] = grid[r]
                    /\ err'[r] = NoError]_vars

\* On a grid of two processes, one process has called
\* InitializeConnectivity before DistributePatches and has no relation and
\* no error; the other has called it after, and has relations on its
\* active patches and none on its stubs.
C34_Witness ==
    /\ nSize = 2
    /\ \E r \in Ranks, q \in Ranks :
        /\ calls[r].conn = 1
        /\ connLog[r] = <<>>
        /\ err[r] = NoError
        /\ \A n \in 0 .. (GetPatchCount(grid[r]) - 1) :
                GetPatch(grid[r], n).connect = <<>>
        /\ calls[q].conn = 1
        /\ err[q] = NoError
        /\ ActivePatches(grid[q]) # {}
        /\ \A n \in 0 .. (GetPatchCount(grid[q]) - 1) :
                (GetPatch(grid[q], n).connect # <<>>)
                    <=> (n \in ActivePatches(grid[q]))

(***************************************************************************)
(* The result of LinearCombineData on the state.                           *)
(***************************************************************************)
\* The sum over the slots m .. Len(dCoeff) - 1 of dCoeff[m + 1] times the
\* value of cell c of array <<name, m>> in d.
RECURSIVE WeightedSum(_, _, _, _, _)
WeightedSum(d, name, dCoeff, c, m) ==
    IF m >= Len(dCoeff) THEN 0
    ELSE dCoeff[m + 1] * d[<<name, m>>][c]
            + WeightedSum(d, name, dCoeff, c, m + 1)

\* The step is a call of LinearCombineData on the state that returns.
IsStateCombineStep ==
    /\ op'.nCalls # op.nCalls
    /\ op'.name = "LinearCombineData"
    /\ op'.eDataType = "State"
    /\ err'[op'.r] = NoError

\* C35: LinearCombineData(c, d, State) with a valid destination d and a
\* coefficient vector c of length L sets slot d, at node and edge
\* locations, to the sum over m < L of c[m] times the value slot m had
\* before the call, and leaves every other slot and array unchanged.
C35_LinearCombination ==
    [][IsStateCombineStep =>
        \E r \in {op'.r}, n \in {op'.ixPatch} :
            /\ DOMAIN data'[r][n] = DOMAIN data[r][n]
            /\ \A f \in DOMAIN data[r][n] :
                IF f \in SlotArrays("State", op'.ixDest)
                THEN \A c \in DOMAIN data[r][n][f] :
                        data'[r][n][f][c]
                            = WeightedSum(data[r][n], f[1], op'.dCoeff, c, 0)
                ELSE data'[r][n][f] = data[r][n][f]
            /\ \A q \in Ranks : \A m \in DOMAIN data[q] :
                    (<<q, m>> # <<r, n>>) => (data'[q][m] = data[q][m])]_vars

\* LinearCombineData has combined both slots of the state of a patch into
\* slot 1 with nonzero coefficients, and the slot has changed.
C35_Witness ==
    /\ op.name = "LinearCombineData"
    /\ op.eDataType = "State"
    /\ op.dCoeff = <<2, 2>>
    /\ op.ixDest = 1
    /\ err[op.r] = NoError
    /\ op.ixPatch \in DOMAIN data[op.r]
    /\ \E c \in DOMAIN data[op.r][op.ixPatch][<<"StateNode", 1>>] :
            data[op.r][op.ixPatch][<<"StateNode", 1>>][c]
                # 2 * data[op.r][op.ixPatch][<<"StateNode", 0>>][c]

(***************************************************************************)
(* AddPatch and DistributePatches in any order: DistributePatches may be   *)
(* called on a grid that is only partly built, and patches added after it. *)
(***************************************************************************)
IncrementalNext ==
    \E r \in Ranks :
        \/ AddPatchCall(r)
        \/ DistributePatches(r)

SpecIncremental == BuildInit /\ [][IncrementalNext]_vars

\* The active list of process r names no patch twice, and only patches
\* that hold data.
ActiveListSound(r) ==
    LET act == grid[r].vecActiveGridPatches IN
    /\ \A i, j \in DOMAIN act : (act[i] = act[j]) => (i = j)
    /\ \A i \in DOMAIN act :
        /\ act[i] \in 0 .. (GetPatchCount(grid[r]) - 1)
        /\ GetPatch(grid[r], act[i]).fContainsData

\* The step is a DistributePatches call of a process that owns a patch.
IsRepeatedDistribute(r) ==
    /\ r \in Ranks
    /\ calls'[r].dist # calls[r].dist
    /\ grid[r].vecActiveGridPatches # <<>>

\* C36: after any sequence of AddPatch and DistributePatches calls the
\* active list of a process has no patch twice and only patches whose
\* contains-data flag is true; DistributePatches on a process that already
\* owns a patch raises "previously initialized" and the list does not grow.
C36_ActiveListSound ==
    /\ [](\A r \in Ranks : ActiveListSound(r))
    /\ [][\A r \in 0 .. (MaxProcs - 1) :
            IsRepeatedDistribute(r) =>
                /\ err'[r] =
                    "Attempting to initialize a previously initialized GridPatch."
                /\ grid'[r].vecActiveGridPatches
                        = grid[r].vecActiveGridPatches]_vars

\* A process added patches, distributed them, and called DistributePatches
\* again: the call stopped with the error and the list is as it was after
\* the first call.
C36_Witness ==
    \E r \in Ranks :
        /\ calls[r].dist = 2
        /\ err[r] = "Attempting to initialize a previously initialized GridPatch."
        /\ Len(grid[r].vecActiveGridPatches) >= 2
        /\ GetPatchCount(grid[r]) = 6

(***************************************************************************)
(* The contains-data flag of a patch.                                      *)
(***************************************************************************)
ContainsData(g, n) == GetPatch(g, n).fContainsData

\* The step is the call name on patch n of process r.
IsStorageCall(r, n, name) ==
    /\ op'.nCalls # op.nCalls
    /\ op'.name = name
    /\ op'.r = r
    /\ op'.ixPatch = n

\* C37: the contains-data flag of a patch changes only from false to true
\* by InitializeDataLocal and from true to false by DeinitializeData,
\* called directly or by InitializeDataRemote; InitializeDataLocal on a
\* patch that holds data and DeinitializeData on a stub raise an error and
\* leave the flag as it is.
C37_FlagTransitions ==
    [][\A r \in Ranks : \A n \in 0 .. (GetPatchCount(grid[r]) - 1) :
        /\ GetPatchCount(grid'[r]) = GetPatchCount(grid[r])
        /\ (ContainsData(grid'[r], n) # ContainsData(grid[r], n)) =>
            IF ContainsData(grid'[r], n)
            THEN IsStorageCall(r, n, "InitializeDataLocal")
            ELSE \/ IsStorageCall(r, n, "DeinitializeData")
                 \/ IsStorageCall(r, n, "InitializeDataRemote")
        /\ (IsStorageCall(r, n, "InitializeDataLocal")
                /\ ContainsData(grid[r], n)) =>
            /\ err'[r] = InitializedError
            /\ ContainsData(grid'[r], n)
        /\ (IsStorageCall(r, n, "DeinitializeData")
                /\ ~ContainsData(grid[r], n)) =>
            /\ err'[r] = StubError
            /\ ~ContainsData(grid'[r], n)]_vars

\* One process initialized a patch twice and stopped with the error, the
\* patch still holding data; the other deinitialized a stub and stopped,
\* the patch still a stub.
C37_Witness ==
    /\ nSize = 2
    /\ err[0] = InitializedError
    /\ err[1] = StubError
    /\ \E n \in 0 .. (GetPatchCount(grid[0]) - 1) : ContainsData(grid[0], n)
    /\ \A n \in 0 .. (GetPatchCount(grid[1]) - 1) : ~ContainsData(grid[1], n)

(***************************************************************************)
(* Exchange of a data type GridPatch::Send does not support.               *)
(***************************************************************************)
ExchangedTypes ==
    {"State", "Tracers", "Vorticity", "Divergence", "Temperature",
     "TopographyDeriv"}

\* The messages the patches of process r have sent.
SentBy(r) == {msg \in net : msg.src \in ActivePatches(grid[r])}

\* Process r with an active patch has not gone past its first Send, has
\* raised nothing but "Invalid DataType", and has sent nothing.
StoppedAtSend(r) ==
    /\ xchg[r].phase \in {"idle", "barrier", "prepare", "send"}
    /\ err[r] \in {NoError, "Invalid DataType"}
    /\ (err[r] = "Invalid DataType") => (xchg[r].phase = "send")
    /\ xcount[r].sent = 0
    /\ SentBy(r) = {}

\* Process r takes a step in its send phase.
IsSendStepOf(r) ==
    /\ r \in Ranks
    /\ xchg[r].phase = "send"
    /\ (err'[r] # err[r]) \/ (xchg'[r] # xchg[r]) \/ (xcount'[r] # xcount[r])

\* C38: Exchange called with a data type other than State, Tracers,
\* Vorticity, Divergence, Temperature and TopographyDeriv raises "Invalid
\* DataType" on every process that has an active patch: its first Send is
\* the raise, and the process sends no message in the round.
C38_InvalidDataType ==
    /\ []((xarg.eDataType \notin ExchangedTypes) =>
            \A r \in Ranks : (ActiveCount(r) > 0) => StoppedAtSend(r))
    /\ [][\A r \in 0 .. (MaxProcs - 1) :
            ((xarg.eDataType \notin ExchangedTypes) /\ IsSendStepOf(r)) =>
                /\ err'[r] = "Invalid DataType"
                /\ net' = net]_vars

\* Both processes have left the barrier, posted the receives of their
\* patches and raised the error at their first Send; no message was sent.
C38_Witness ==
    /\ nSize = 2
    /\ xarg.eDataType \notin ExchangedTypes
    /\ \A r \in Ranks :
        /\ ActiveCount(r) > 0
        /\ err[r] = "Invalid DataType"
        /\ xcount[r].prepared = ActiveCount(r)
        /\ posted[r] # {}
    /\ net = {}

(***************************************************************************)
(* ConsolidateDataAtRoot called by a process other than the root.          *)
(***************************************************************************)
NonRootError == "Non-root process calling ConsolidateDataAtRoot"

\* The step is a call of ConsolidateDataAtRoot by process r, which is not
\* the root: after its sends the process makes no other call.
IsNonRootAtRootCall(r) ==
    /\ r \in Ranks
    /\ r # 0
    /\ cons[r].phase = "done"
    /\ (err'[r] # err[r]) \/ (cons'[r] # cons[r])

\* C39: ConsolidateDataAtRoot called on a process whose rank is not 0
\* raises its error before the completion check and before any receive:
\* no message is consumed and the status is unchanged.
C39_NonRootRaisesFirst ==
    [][\A r \in 0 .. (MaxProcs - 1) :
        IsNonRootAtRootCall(r) =>
            /\ err'[r] = NonRootError
            /\ status' = status
            /\ rootNet' = rootNet
            /\ recvLog' = recvLog]_vars

\* Process 1 called ConsolidateDataAtRoot while messages for the root were
\* in flight and the status was not complete; it raised the error and the
\* messages are still in flight.
C39_Witness ==
    /\ nSize = 2
    /\ err[1] = NonRootError
    /\ rootNet # {}
    /\ ~Done(status)
    /\ \A x \in DOMAIN recvLog : recvLog[x] = 0

(***************************************************************************)
(* Grid::InitializeVerticalCoordinate.  The grid carries the model's       *)
(* equation set (dimensionality, components), its number of vertical       *)
(* elements and the coordinate and variable-location members the function  *)
(* writes.  A GridSpacing is what it answers: the node counts it agrees    *)
(* with, and its coordinates, kept as the terms <<"edge", id, k>> and      *)
(* <<"node", id, k>>.                                                      *)
(***************************************************************************)
\* Largest number of vertical elements (Grid::m_nRElements) and largest
\* number of InitializeVerticalCoordinate calls made in all.
MaxVerticalElements == 2
MaxVerticalCalls == 3

NewVerticalGrid(dimensionality, components, nRElements) ==
    [vecGridPatches |-> <<>>, vecActiveGridPatches |-> <<>>,
     model |-> [dimensionality |-> dimensionality, components |-> components],
     nRElements |-> nRElements,
     dREtaLevels |-> <<>>, dREtaInterfaces |-> <<>>,
     vecVarLocation |-> <<>>, vecVarsAtLocation |-> <<>>, vecVarIndex |-> <<>>]

DoesNodeCountAgree(gridspacing, nNodes) == nNodes \in gridspacing.counts

GetEdge(gridspacing, k) == <<"edge", gridspacing.id, k>>

GetNode(gridspacing, k) == <<"node", gridspacing.id, k>>

\* std::vector::resize: the elements kept, new ones value-initialized.
Resize(v, n) == [k \in 1 .. n |-> IF k <= Len(v) THEN v[k] ELSE "Unset"]

DataLocations == <<"Node", "AEdge", "BEdge", "REdge">>

\* The last loop of InitializeVerticalCoordinate: the number of variables
\* at each location, and the index of each variable among those of its
\* location.
VarIndices(g) ==
    IF \E c \in DOMAIN g.vecVarLocation :
            g.vecVarLocation[c] \notin Range(DataLocations)
    THEN [g |-> g, err |-> "Invalid variable location"]
    ELSE [g |-> [g EXCEPT
                  !.vecVarsAtLocation =
                      [l \in DOMAIN DataLocations |->
                          Cardinality({c \in DOMAIN g.vecVarLocation :
                                          g.vecVarLocation[c] = DataLocations[l]})],
                  !.vecVarIndex =
                      [c \in DOMAIN g.vecVarLocation |->
                          Cardinality({b \in 1 .. (c - 1) :
                              g.vecVarLocation[b] = g.vecVarLocation[c]})]],
          err |-> NoError]

\* Faulty variant: the coordinate arrays are resized and filled before the
\* node count is checked.
InitializeVerticalCoordinateOnLateCheck(g, gridspacing) ==
    Only({
        IF g.model.dimensionality = 2
        THEN VarIndices([g0 EXCEPT
                !.dREtaLevels = <<"0.5">>,
                !.dREtaInterfaces = <<"0.0", "1.0">>,
                !.vecVarLocation = [@ EXCEPT ![1] = "Node", ![2] = "Node",
                                             ![3] = "Node"]])
        ELSE IF g.model.dimensionality = 3
        THEN Only({
                IF ~DoesNodeCountAgree(gridspacing, g.nRElements)
                THEN [g |-> g1,
                      err |-> "Invalid node count for given vertical GridSpacing."]
                ELSE VarIndices([g1 EXCEPT
                        !.vecVarLocation = [@ EXCEPT ![1] = "Node", ![2] = "Node",
                                                     ![3] = "REdge", ![4] = "REdge",
                                                     ![5] = "Node"]])
                : g1 \in {[g0 EXCEPT
                    !.dREtaLevels =
                        [k \in 1 .. g.nRElements |-> GetNode(gridspacing, k - 1)],
                    !.dREtaInterfaces =
                        [k \in 1 .. (g.nRElements + 1) |->
                            GetEdge(gridspacing, k - 1)]]} })
        ELSE [g |-> g0, err |-> "Invalid dimensionality"]
        : g0 \in {[g EXCEPT !.vecVarLocation = Resize(@, g.model.components)]} })

\* Grid::InitializeVerticalCoordinate: [g, err].
InitializeVerticalCoordinateOn(g, gridspacing) ==
    Only({
        IF g.model.dimensionality = 2
        THEN VarIndices([g0 EXCEPT
                !.dREtaLevels = <<"0.5">>,
                !.dREtaInterfaces = <<"0.0", "1.0">>,
                !.vecVarLocation = [@ EXCEPT ![1] = "Node", ![2] = "Node",
                                             ![3] = "Node"]])
        ELSE IF g.model.dimensionality = 3
        THEN IF ~DoesNodeCountAgree(gridspacing, g.nRElements)
             THEN [g |-> g0,
                   err |-> "Invalid node count for given vertical GridSpacing."]
             ELSE VarIndices([g0 EXCEPT
                    !.dREtaLevels =
                        [k \in 1 .. g.nRElements |-> GetNode(gridspacing, k - 1)],
                    !.dREtaInterfaces =
                        [k \in 1 .. (g.nRElements + 1) |->
                            GetEdge(gridspacing, k - 1)],
                    !.vecVarLocation = [@ EXCEPT ![1] = "Node", ![2] = "Node",
                                                 ![3] = "REdge", ![4] = "REdge",
                                                 ![5] = "Node"]])
        ELSE [g |-> g0, err |-> "Invalid dimensionality"]
        : g0 \in {[g EXCEPT !.vecVarLocation = Resize(@, g.model.components)]} })

\* The equation sets of the model, as <<dimensionality, components>>: the
\* shallow-water set has three components in two dimensions, the
\* nonhydrostatic set five in three; the others have a dimensionality the
\* grid does not support.
EquationSets == {<<2, 3>>, <<3, 5>>} \cup ({1, 4} \X {3, 5})

\* The vertical spacings a call is given: one that agrees with every node
\* count, one that agrees with the even ones.
GridSpacings ==
    {[id |-> "uniform", counts |-> 1 .. MaxVerticalElements],
     [id |-> "paired", counts |-> {n \in 1 .. MaxVerticalElements : n % 2 = 0}]}

InitializeVerticalCoordinate(r) ==
    /\ err[r] = NoError
    /\ op.nCalls < MaxVerticalCalls
    /\ \E gridspacing \in GridSpacings :
       \E res \in {InitializeVerticalCoordinateOn(grid[r], gridspacing)} :
         /\ grid' = [grid EXCEPT ![r] = res.g]
         /\ err' = [err EXCEPT ![r] = res.err]
         /\ op' = [name |-> "InitializeVerticalCoordinate", r |-> r,
                   gridspacing |-> gridspacing, nCalls |-> op.nCalls + 1]
    /\ UNCHANGED <<nSize, gridBoxes, data, calls, connLog, cksum>>
    /\ UNCHANGED exchangeVars
    /\ UNCHANGED consolidateVars

VerticalInit ==
    \E size \in 1 .. MaxProcs, es \in EquationSets,
       nRElements \in 1 .. MaxVerticalElements :
        /\ nSize = size
        /\ gridBoxes = <<>>
        /\ grid = [r \in 0 .. (size - 1) |->
                        NewVerticalGrid(es[1], es[2], nRElements)]
        /\ data = [r \in 0 .. (size - 1) |-> <<>>]
        /\ err = [r \in 0 .. (size - 1) |-> NoError]
        /\ calls = [r \in 0 .. (size - 1) |-> [dist |-> 0, conn |-> 0]]
        /\ connLog = [r \in 0 .. (size - 1) |-> <<>>]
        /\ ExchangeIdle(size)
        /\ ConsolidateIdle(size)
        /\ DataOpIdle(size)

VerticalNext == \E r \in Ranks : InitializeVerticalCoordinate(r)

SpecVertical == VerticalInit /\ [][VerticalNext]_vars

\* The step is a call of InitializeVerticalCoordinate.
IsVerticalCall ==
    /\ op'.nCalls # op.nCalls
    /\ op'.name = "InitializeVerticalCoordinate"

\* The level and interface coordinates of process r are as they were.
CoordinatesKept(r) ==
    /\ grid'[r].dREtaLevels = grid[r].dREtaLevels
    /\ grid'[r].dREtaInterfaces = grid[r].dREtaInterfaces

\* C40: InitializeVerticalCoordinate raises an error when the
\* dimensionality of the model is neither 2 nor 3, and when it is 3 and
\* the vertical spacing does not agree with the number of vertical
\* elements of the grid; in both cases the level and interface
\* coordinates are not set.
C40_VerticalCoordinateErrors ==
    [][IsVerticalCall =>
        \E r \in {op'.r} :
            /\ (grid[r].model.dimensionality \notin {2, 3}) =>
                /\ err'[r] = "Invalid dimensionality"
                /\ CoordinatesKept(r)
            /\ (/\ grid[r].model.dimensionality = 3
                /\ ~DoesNodeCountAgree(op'.gridspacing, grid[r].nRElements)) =>
                /\ err'[r] = "Invalid node count for given vertical GridSpacing."
                /\ CoordinatesKept(r)]_vars

\* A process set its coordinates from a spacing that agrees with its node
\* count, and then called again with one that does not: the call raised
\* the error and the coordinates are still those of the first spacing.
C40_Witness ==
    /\ op.name = "InitializeVerticalCoordinate"
    /\ err[op.r] = "Invalid node count for given vertical GridSpacing."
    /\ op.gridspacing.id = "paired"
    /\ grid[op.r].dREtaLevels = <<GetNode([id |-> "uniform"], 0)>>
    /\ grid[op.r].dREtaInterfaces
            = <<GetEdge([id |-> "uniform"], 0), GetEdge([id |-> "uniform"], 1)>>


==============================================================================
